---- MODULE Spec2Model ----
(***************************************************************************)
(* Model of the git history ingestion pipeline (parseGitLog and its        *)
(* sanitizers) and of the ad-hoc query gateway (GET / POST of the log      *)
(* route).  Strings are sequences of one-character strings, so that        *)
(* split, trim, startsWith, replace and parseInt are computed as the code  *)
(* computes them.                                                          *)
(***************************************************************************)
EXTENDS Integers, Sequences, FiniteSets, TLC

VARIABLES
    pc,                 \* position of the parseGitLog run
    sanitizedRepoPath,  \* result of sanitizeRepositoryPath inside parseGitLog
    sizeBytes,          \* measured size of the metadata directory
    commitLimit,        \* min(estimatedCommits, MAX_COMMITS)
    logCmd,             \* <<>> or <<[maxCount |-> n]>>: the history log command invoked
    lines,              \* logOutput.split('\n')
    i,                  \* loop index of the line loop (0-based, as in the code)
    currentCommit,      \* <<>> (null) or <<commit>>
    commits,            \* result list
    fileMap,            \* Map<string, FileData> in insertion order
    sizeTask,           \* state of each fileProcessingPromises element
    authorTask,         \* state of each authorExtractionPromises element
    batchI,             \* loop index of the batch-await loop in progress
    fsCalls,            \* file-system calls issued by the enrichment: [op, path]
    authorCmds,         \* file paths interpolated into author-history command lines
    outcome,            \* "running", "returned" or the error thrown by the run
    sanFn, sanIn, sanOut,       \* pure-function harness: function applied, input, result
    gwPc, gwReq, gwCmd, gwResp, \* query gateway: position, request, command executed, response
    apiPc, apiReq, apiResp      \* parse endpoint: position, request body, response

vars == <<pc, sanitizedRepoPath, sizeBytes, commitLimit, logCmd, lines, i,
          currentCommit, commits, fileMap, sizeTask, authorTask, batchI,
          fsCalls, authorCmds, outcome, sanFn, sanIn, sanOut,
          gwPc, gwReq, gwCmd, gwResp, apiPc, apiReq, apiResp>>

pipelineVars == <<pc, sanitizedRepoPath, sizeBytes, commitLimit, logCmd, lines, i,
                  currentCommit, commits, fileMap, sizeTask, authorTask, batchI,
                  fsCalls, authorCmds, outcome>>
sanVars == <<sanFn, sanIn, sanOut>>
gwVars == <<gwPc, gwReq, gwCmd, gwResp>>
apiVars == <<apiPc, apiReq, apiResp>>

(***************************************************************************)
(* JavaScript string primitives on character sequences                     *)
(***************************************************************************)
\* The backquote character (the TLA+ lexer accepts no backquote inside a string)
BACKTICK == "backtick"
IsWs(c) == c \in {" ", "\t", "\n", "\r"}
IsDigit(c) == c \in {"0","1","2","3","4","5","6","7","8","9"}
DigitVal(c) == CASE c = "0" -> 0 [] c = "1" -> 1 [] c = "2" -> 2 [] c = "3" -> 3
                 [] c = "4" -> 4 [] c = "5" -> 5 [] c = "6" -> 6 [] c = "7" -> 7
                 [] c = "8" -> 8 [] c = "9" -> 9

RECURSIVE TrimStart(_)
TrimStart(s) == IF s # <<>> /\ IsWs(Head(s)) THEN TrimStart(Tail(s)) ELSE s
RECURSIVE TrimEnd(_)
TrimEnd(s) == IF s # <<>> /\ IsWs(s[Len(s)]) THEN TrimEnd(SubSeq(s, 1, Len(s) - 1)) ELSE s
\* String.prototype.trim
Trim(s) == TrimEnd(TrimStart(s))

\* String.prototype.startsWith
StartsWith(s, p) == Len(p) <= Len(s) /\ SubSeq(s, 1, Len(p)) = p
\* String.prototype.includes
Includes(s, p) == \E k \in 1..(Len(s) - Len(p) + 1) : SubSeq(s, k, k + Len(p) - 1) = p

\* String.prototype.split(c) for a one-character separator
RECURSIVE Split(_, _)
Split(s, c) ==
    IF s = <<>> THEN << <<>> >>
    ELSE LET rest == Split(Tail(s), c) IN
         IF Head(s) = c THEN << <<>> >> \o rest
         ELSE << <<Head(s)>> \o rest[1] >> \o Tail(rest)

\* String.prototype.split(/\s+/)
RECURSIVE SplitWs(_)
SplitWs(s) ==
    IF s = <<>> THEN << <<>> >>
    ELSE IF IsWs(Head(s)) THEN << <<>> >> \o SplitWs(TrimStart(s))
    ELSE LET rest == SplitWs(Tail(s)) IN << <<Head(s)>> \o rest[1] >> \o Tail(rest)

\* Array.prototype.join(c)
RECURSIVE Join(_, _)
Join(segs, c) ==
    IF segs = <<>> THEN <<>>
    ELSE IF Len(segs) = 1 THEN segs[1]
    ELSE segs[1] \o <<c>> \o Join(Tail(segs), c)

\* A JavaScript number that may be NaN
Num(n) == [nan |-> FALSE, val |-> n]
NaN == [nan |-> TRUE, val |-> 0]

RECURSIVE ParseDigits(_, _)
ParseDigits(s, acc) ==
    IF s # <<>> /\ IsDigit(Head(s)) THEN ParseDigits(Tail(s), acc * 10 + DigitVal(Head(s)))
    ELSE acc
\* parseInt(s): leading whitespace, optional sign, the longest run of digits; NaN without a digit
ParseInt(s) ==
    LET t == TrimStart(s)
        signed == t # <<>> /\ Head(t) \in {"-", "+"}
        u == IF signed THEN Tail(t) ELSE t
    IN  IF u = <<>> \/ ~IsDigit(Head(u)) THEN NaN
        ELSE IF signed /\ Head(t) = "-" THEN Num(0 - ParseDigits(u, 0))
        ELSE Num(ParseDigits(u, 0))
\* parseInt(x) || 0, x possibly undefined (an index past the end of arr)
ParseIntOrZero(arr, k) ==
    IF k > Len(arr) THEN 0
    ELSE LET r == ParseInt(arr[k]) IN IF r.nan THEN 0 ELSE r.val
\* Math.max on possibly-NaN numbers
MathMax(a, b) == IF a.nan \/ b.nan THEN NaN ELSE IF a.val >= b.val THEN a ELSE b

(***************************************************************************)
(* path.normalize / path.resolve / path.join (POSIX)                       *)
(***************************************************************************)
\* process.cwd() and os.homedir() of the serving process
CWD == <<"/","a","p","p">>
HOME == <<"/","h","o","m","e","/","u">>

IsAbsolute(p) == p # <<>> /\ Head(p) = "/"
NonEmptySegs(p) == SelectSeq(Split(p, "/"), LAMBDA seg : seg # <<>>)

\* normalizeString: drop ".", resolve ".." against the segments kept so far
RECURSIVE NormSegs(_, _, _)
NormSegs(segs, acc, allowAbove) ==
    IF segs = <<>> THEN acc
    ELSE LET seg == Head(segs) IN
         IF seg = <<".">> THEN NormSegs(Tail(segs), acc, allowAbove)
         ELSE IF seg = <<".", ".">> THEN
              IF acc # <<>> /\ acc[Len(acc)] # <<".", ".">>
                 THEN NormSegs(Tail(segs), SubSeq(acc, 1, Len(acc) - 1), allowAbove)
              ELSE IF allowAbove THEN NormSegs(Tail(segs), Append(acc, seg), allowAbove)
              ELSE NormSegs(Tail(segs), acc, allowAbove)
         ELSE NormSegs(Tail(segs), Append(acc, seg), allowAbove)

PathNormalize(p) ==
    IF p = <<>> THEN <<".">>
    ELSE LET abs == IsAbsolute(p)
             trailing == p[Len(p)] = "/"
             body == Join(NormSegs(NonEmptySegs(p), <<>>, ~abs), "/")
         IN  IF body = <<>> THEN (IF abs THEN <<"/">> ELSE IF trailing THEN <<".", "/">> ELSE <<".">>)
             ELSE (IF abs THEN <<"/">> ELSE <<>>) \o body \o (IF trailing THEN <<"/">> ELSE <<>>)

PathResolve(p) ==
    LET full == IF IsAbsolute(p) THEN p ELSE CWD \o <<"/">> \o p
    IN  <<"/">> \o Join(NormSegs(NonEmptySegs(full), <<>>, FALSE), "/")

PathJoin(a, b) ==
    LET joined == IF a = <<>> THEN b ELSE IF b = <<>> THEN a ELSE a \o <<"/">> \o b
    IN  PathNormalize(joined)

\* path.extname: from the last "." of the last segment, "" when there is none or it leads the name
RECURSIVE LastDot(_, _)
LastDot(name, k) == IF k = 0 THEN 0 ELSE IF name[k] = "." THEN k ELSE LastDot(name, k - 1)
PathExtname(p) ==
    LET segs == NonEmptySegs(p)
        name == IF segs = <<>> THEN <<>> ELSE segs[Len(segs)]
        d == LastDot(name, Len(name))
    IN  IF d <= 1 THEN <<>> ELSE SubSeq(name, d, Len(name))

(***************************************************************************)
(* Sanitizers                                                              *)
(***************************************************************************)
Ok(v) == [ok |-> TRUE, val |-> v]
Throw(msg) == [ok |-> FALSE, val |-> msg]

ALLOWED_BASE_DIRS == << <<"/","t","m","p">>, <<"/","v","a","r","/","t","m","p">>, HOME, CWD >>

sanitizeRepositoryPath(repoPath) ==
    LET normalizedPath == PathResolve(PathNormalize(repoPath))
        isAllowed == \E b \in 1..Len(ALLOWED_BASE_DIRS) :
                        StartsWith(normalizedPath, PathResolve(ALLOWED_BASE_DIRS[b]))
    IN  IF ~isAllowed THEN Throw("Repository path is not in an allowed directory")
        ELSE IF Includes(normalizedPath, <<".", ".">>) \/ Includes(normalizedPath, <<"~">>)
             THEN Throw("Invalid characters in repository path")
        ELSE Ok(normalizedPath)

\* The character class of the pattern in sanitizeFilePath: /[;&|`$(){}\\[\\]]/g reads as
\* the class [;&|`$(){}\\[\\] followed by a literal "]"
FilePathClass == {";", "&", "|", BACKTICK, "$", "(", ")", "{", "}", "\\", "["}
RECURSIVE FilePathReplace(_)
FilePathReplace(s) ==
    IF s = <<>> THEN <<>>
    ELSE IF Len(s) >= 2 /\ s[1] \in FilePathClass /\ s[2] = "]" THEN FilePathReplace(Tail(Tail(s)))
    ELSE <<Head(s)>> \o FilePathReplace(Tail(s))

sanitizeFilePath(filePath) ==
    LET sanitized == Trim(FilePathReplace(filePath))
    IN  IF sanitized # filePath THEN Throw("Invalid characters in file path") ELSE Ok(sanitized)

\* the class with the two brackets lost from the pattern
GitParamClassNoBrackets == {";", "&", "|", BACKTICK, "$", "(", ")", "{", "}", "\\"}
\* The character class of the pattern in sanitizeGitParameter: /[;&|`$(){}\\[\]]/g
GitParamClass == {";", "&", "|", BACKTICK, "$", "(", ")", "{", "}", "\\", "[", "]"}
GitParamReplace(s) == SelectSeq(s, LAMBDA c : c \notin GitParamClass)

sanitizeGitParameter(param) ==
    LET sanitized == Trim(GitParamReplace(param))
    IN  IF sanitized # param THEN Throw("Invalid characters in parameter") ELSE Ok(sanitized)

(***************************************************************************)
(* Language detection and the complexity heuristic                         *)
(***************************************************************************)
Upper == <<"A","B","C","D","E","F","G","H","I","J","K","L","M","N","O","P","Q","R","S","T","U","V","W","X","Y","Z">>
Lower == <<"a","b","c","d","e","f","g","h","i","j","k","l","m","n","o","p","q","r","s","t","u","v","w","x","y","z">>
Range(f) == {f[k] : k \in DOMAIN f}
LowerChar(c) == IF c \in Range(Upper) THEN Lower[CHOOSE k \in 1..26 : Upper[k] = c] ELSE c
\* String.prototype.toLowerCase
ToLowerCase(s) == [k \in 1..Len(s) |-> LowerChar(s[k])]

languageMap == <<
    << <<".","j","s">>, "javascript" >>,
    << <<".","j","s","x">>, "javascript" >>,
    << <<".","t","s">>, "typescript" >>,
    << <<".","t","s","x">>, "typescript" >>,
    << <<".","p","y">>, "python" >>,
    << <<".","j","a","v","a">>, "java" >>,
    << <<".","c","p","p">>, "cpp" >>,
    << <<".","c">>, "c" >>,
    << <<".","c","s">>, "csharp" >>,
    << <<".","p","h","p">>, "php" >>,
    << <<".","r","b">>, "ruby" >>,
    << <<".","g","o">>, "go" >>,
    << <<".","r","s">>, "rust" >>,
    << <<".","s","w","i","f","t">>, "swift" >>,
    << <<".","k","t">>, "kotlin" >>,
    << <<".","s","c","a","l","a">>, "scala" >>,
    << <<".","s","h">>, "shell" >>,
    << <<".","s","q","l">>, "sql" >>,
    << <<".","h","t","m","l">>, "html" >>,
    << <<".","c","s","s">>, "css" >>,
    << <<".","s","c","s","s">>, "scss" >>,
    << <<".","s","a","s","s">>, "sass" >>,
    << <<".","l","e","s","s">>, "less" >>,
    << <<".","j","s","o","n">>, "json" >>,
    << <<".","x","m","l">>, "xml" >>,
    << <<".","y","a","m","l">>, "yaml" >>,
    << <<".","y","m","l">>, "yaml" >>,
    << <<".","m","d">>, "markdown" >>,
    << <<".","d","o","c","k","e","r","f","i","l","e">>, "docker" >>,
    << <<".","r">>, "r" >>,
    << <<".","m">>, "matlab" >>,
    << <<".","p","l">>, "perl" >>,
    << <<".","l","u","a">>, "lua" >>,
    << <<".","v","i","m">>, "vim" >>
>>

detectLanguage(filePath) ==
    LET ext == ToLowerCase(PathExtname(filePath))
        hits == {k \in 1..Len(languageMap) : languageMap[k][1] = ext}
    IN  IF hits = {} THEN "undefined" ELSE languageMap[CHOOSE k \in hits : TRUE][2]

IsWordChar(c) == c \in Range(Upper) \cup Range(Lower) \cup {"_"} \/ IsDigit(c)
\* number of matches of /\bw\b/g in content
CountWord(content, w) ==
    Cardinality({k \in 1..(Len(content) - Len(w) + 1) :
        /\ SubSeq(content, k, k + Len(w) - 1) = w
        /\ (k = 1 \/ ~IsWordChar(content[k - 1]))
        /\ (k + Len(w) > Len(content) \/ ~IsWordChar(content[k + Len(w)]))})
CountChar(content, c) == Cardinality({k \in 1..Len(content) : content[k] = c})

controlPatterns == <<
    <<"i","f">>, <<"e","l","s","e">>, <<"w","h","i","l","e">>, <<"f","o","r">>,
    <<"s","w","i","t","c","h">>, <<"c","a","s","e">>, <<"t","r","y">>, <<"c","a","t","c","h">>,
    <<"f","u","n","c","t","i","o","n">>, <<"c","l","a","s","s">>, <<"r","e","t","u","r","n">> >>

RECURSIVE CountAll(_, _)
CountAll(content, patterns) ==
    IF patterns = <<>> THEN 0
    ELSE CountWord(content, Head(patterns)) + CountAll(content, Tail(patterns))

Min(a, b) == IF a <= b THEN a ELSE b
Max(a, b) == IF a >= b THEN a ELSE b

\* the score returned without the cap
calculateComplexityUnclamped(content, language) ==
    1 + CountAll(content, controlPatterns)
      + Max(CountChar(content, "{") - CountChar(content, "}"), 0) * 2
      + (IF language \in {"typescript", "javascript"}
         THEN CountWord(content, <<"a","s","y","n","c">>) + CountWord(content, <<"a","w","a","i","t">>)
         ELSE 0)

calculateComplexity(content, language) ==
    LET control == CountAll(content, controlPatterns)
        maxNesting == Max(CountChar(content, "{") - CountChar(content, "}"), 0)
        asyncMatches == IF language \in {"typescript", "javascript"}
                        THEN CountWord(content, <<"a","s","y","n","c">>)
                             + CountWord(content, <<"a","w","a","i","t">>)
                        ELSE 0
    IN  Min(1 + control + maxNesting * 2 + asyncMatches, 100)

(***************************************************************************)
(* The line loop of parseGitLog                                            *)
(***************************************************************************)
MAX_COMMITS == 1000
CONCURRENCY_LIMIT == 10
AUTHOR_CONCURRENCY_LIMIT == 5
MAX_REPO_SIZE == 50 * 1024 * 1024

\* the estimate rounded up
checkRepositorySizeRoundedUp(measured) ==
    [sizeBytes |-> measured, estimatedCommits |-> (measured + 1023) \div 1024]

\* checkRepositorySize on a metadata directory whose files sum to measured bytes
\* (getDirectorySize returns 0 for an unreadable directory)
checkRepositorySize(measured) ==
    [sizeBytes |-> measured, estimatedCommits |-> measured \div 1024]

\* the size compared in KiB against the ceiling in bytes
TooLargeInKiB(size) == size \div 1024 > MAX_REPO_SIZE
\* the guard of line 202
TooLarge(size) == size > MAX_REPO_SIZE

\* the header test of a six-field format (one that also prints the parents)
IsCommitLineSixFields(line) == Includes(line, <<"|">>) /\ Len(Split(line, "|")) = 6
\* line.includes('|') && line.split('|').length === 5
IsCommitLine(line) == Includes(line, <<"|">>) /\ Len(Split(line, "|")) = 5

RECURSIVE SkipDigits(_)
SkipDigits(s) == IF s # <<>> /\ IsDigit(Head(s)) THEN SkipDigits(Tail(s)) ELSE s
\* line.match(/^\d+\s+\d+\s+/)
MatchesNumstat(line) ==
    LET r1 == SkipDigits(line)
        r2 == TrimStart(r1)
        r3 == SkipDigits(r2)
        r4 == TrimStart(r3)
    IN  r1 # line /\ r2 # r1 /\ r3 # r2 /\ r4 # r3

TimesThousand(n) == IF n.nan THEN NaN ELSE Num(n.val * 1000)

\* the fields of a header destructured one position late
NewCommitShifted(parts) ==
    [sha |-> parts[2], message |-> Trim(parts[3]), author |-> Trim(parts[4]),
     authorEmail |-> Trim(parts[5]), date |-> NaN,
     filesChanged |-> <<>>, linesAdded |-> 0, linesDeleted |-> 0, tags |-> <<>>]
\* lines 239-250
NewCommit(parts) ==
    [sha |-> parts[1], message |-> Trim(parts[2]), author |-> Trim(parts[3]),
     authorEmail |-> Trim(parts[4]), date |-> TimesThousand(ParseInt(parts[5])),
     filesChanged |-> <<>>, linesAdded |-> 0, linesDeleted |-> 0, tags |-> <<>>]

\* a field the code adds to a FileData later is <<>> while unset and <<value>> once set
Unset == <<>>
Set(v) == <<v>>

\* lines 269-278
NewFileData(path, date) ==
    [path |-> path, extension |-> PathExtname(path), firstSeen |-> date,
     lastModified |-> date, totalChanges |-> 1, currentSize |-> 0, isDeleted |-> FALSE,
     language |-> detectLanguage(path),
     maxComplexity |-> Unset, avgComplexity |-> Unset, primaryAuthors |-> Unset]

\* fileMap.has / index of the entry of a path (0 when absent)
FileIndex(map, path) ==
    IF \E k \in 1..Len(map) : map[k].path = path
    THEN CHOOSE k \in 1..Len(map) : map[k].path = path
    ELSE 0

\* a tracked file's record replaced by a fresh one on every later line
TrackFileReset(map, path, date) ==
    LET k == FileIndex(map, path) IN
    IF k = 0 THEN Append(map, NewFileData(path, date))
    ELSE [map EXCEPT ![k] = NewFileData(path, date)]
\* lines 267-284
TrackFile(map, path, date) ==
    LET k == FileIndex(map, path) IN
    IF k = 0 THEN Append(map, NewFileData(path, date))
    ELSE [map EXCEPT ![k].lastModified = MathMax(@, date),
                     ![k].totalChanges = @ + 1]

\* the counts added to the commit, the path not recorded in it
AddFileChangeCountsOnly(commit, stats, path) ==
    LET counts == SplitWs(stats) IN
    [commit EXCEPT !.linesAdded = @ + ParseIntOrZero(counts, 1),
                   !.linesDeleted = @ + ParseIntOrZero(counts, 2)]

\* lines 260-264: the counts are read from the first tab-separated field
AddFileChange(commit, stats, path) ==
    LET counts == SplitWs(stats) IN
    [commit EXCEPT !.filesChanged = Append(@, path),
                   !.linesAdded = @ + ParseIntOrZero(counts, 1),
                   !.linesDeleted = @ + ParseIntOrZero(counts, 2)]

\* One iteration of the while loop (lines 225-292) on the state st =
\* [i, currentCommit, commits, fileMap]
LoopBody(st, rawLine) ==
    LET line == Trim(rawLine) IN
    IF IsCommitLine(line) THEN
        LET parts == Split(line, "|")
            flushed == IF st.currentCommit # <<>> THEN st.commits \o st.currentCommit
                       ELSE st.commits
        IN  [st EXCEPT !.commits = flushed,
                       !.currentCommit = <<NewCommit(parts)>>,
                       !.i = @ + 1]
    ELSE IF line # <<>> /\ st.currentCommit # <<>> /\ MatchesNumstat(line) THEN
        LET parts == Split(line, "\t") IN
        IF Len(parts) >= 3 THEN
            LET clean == sanitizeFilePath(parts[3]) IN
            IF clean.ok THEN
                [st EXCEPT !.currentCommit = <<AddFileChange(st.currentCommit[1], parts[1], clean.val)>>,
                           !.fileMap = TrackFile(@, clean.val, st.currentCommit[1].date),
                           !.i = @ + 1]
            ELSE st    \* catch: continue, without reaching i++
        ELSE [st EXCEPT !.i = @ + 1]
    ELSE [st EXCEPT !.i = @ + 1]


(***************************************************************************)
(* Inputs of a parseGitLog run: repository paths, measured sizes, log      *)
(* output, and the working tree the enrichment reads                       *)
(***************************************************************************)
\* /tmp/r (allowed) and /etc (outside every allowed base)
PipelineRepoPaths == { <<"/","t","m","p","/","r">>, <<"/","e","t","c">> }

\* bytes under .git: unreadable or empty, below 1 KiB, 8 KiB, one byte below 1001 KiB,
\* exactly the ceiling, above it
MeasuredSizes == {0, 1023, 8 * 1024, 1001 * 1024 - 1, MAX_REPO_SIZE, MAX_REPO_SIZE + 1}

\* s1|m|a|e|2
LineH1 == <<"s","1","|","m","|","a","|","e","|","2">>
\* s2|m|a|e|1
LineH2 == <<"s","2","|","m","|","a","|","e","|","1">>
\* s3|m|a|e   (four fields)
LineH4 == <<"s","3","|","m","|","a","|","e">>
\* 10<TAB>0<TAB>a.ts
LineFA1 == <<"1","0","\t","0","\t","a",".","t","s">>
\* 0<TAB>4<TAB>a.ts
LineFA2 == <<"0","\t","4","\t","a",".","t","s">>
\* 5<TAB>3<TAB>b
LineFB == <<"5","\t","3","\t","b">>
\* 1<TAB>1<TAB>big
LineFBig == <<"1","\t","1","\t","b","i","g">>
\* 1<TAB>1<TAB>x[]
LineFBad == <<"1","\t","1","\t","x","[","]">>
\* 1<TAB>1<TAB>$(x)
LineFMeta == <<"1","\t","1","\t","$","(","x",")">>
\* 1<TAB>1<TAB>../r2/x
LineFSib == <<"1","\t","1","\t",".",".","/","r","2","/","x">>
\* 1<TAB>1<TAB>../../etc/p
LineFOut == <<"1","\t","1","\t",".",".","/",".",".","/","e","t","c","/","p">>
\* 3 4<TAB>x<TAB>c   (counts separated by a space inside the first tab field)
LineFSp == <<"3"," ","4","\t","x","\t","c">>

\* 1<TAB>1<TAB>a|b|c|d|e   (the numstat line of a file whose name holds four bars)
LineFBars == <<"1","\t","1","\t","a","|","b","|","c","|","d","|","e">>
LineSet == {LineH1, LineH2, LineH4, LineFA1, LineFA2, LineFB, LineFBig, LineFBad,
            LineFMeta, LineFSib, LineFOut, LineFSp, <<>>}

\* the longest log output enumerated line by line
MaxLines == 2

ManyFileLines == <<
    <<"1","\t","0","\t","m","0">>,
    <<"1","\t","0","\t","m","1">>,
    <<"1","\t","0","\t","m","2">>,
    <<"1","\t","0","\t","m","3">>,
    <<"1","\t","0","\t","m","4">>,
    <<"1","\t","0","\t","m","5">>,
    <<"1","\t","0","\t","m","6">>,
    <<"1","\t","0","\t","m","7">>,
    <<"1","\t","0","\t","m","8">>,
    <<"1","\t","0","\t","m","9">>,
    <<"1","\t","0","\t","m","a">> >>

\* log outputs longer than MaxLines: two commits on one file; one commit on six files
\* of every kind; one commit on eleven files
ScenarioStreams == {
    <<LineH1, LineFA1, LineH2, LineFA2>>,
    <<LineH1, LineFA1, LineFB, LineFBig, LineFSib, LineFOut, LineFMeta>>,
    <<LineH1>> \o ManyFileLines }

\* four well-formed headers; headers of which one has four fields; one file touched in
\* three commits; one commit on a missing file and an unreadable one; a commit with a
\* file whose name holds four bars; file lines after a four-field header and before the
\* first header
HeaderStreams == {
    <<LineH1, LineH2, LineH1, LineH2>>,
    <<LineH1, LineH4, LineH2, LineH1>>,
    <<LineH4, LineH2, LineH1>>,
    <<LineH1, LineFA1, LineH2, LineFA2, LineH1, LineFA1>>,
    <<LineH1, LineFB, LineFSp>>,
    <<LineH1, LineFA1, LineFBars, LineFA2, LineFB>>,
    <<LineH1, LineFA1, LineH4, LineFB>>,
    <<LineFB, LineH1, LineFA1, LineH2>> }

ShortStreams == UNION {[1..n -> LineSet] : n \in 1..MaxLines}

\* the commits git prints are bounded by --max-count
CommitLinesOf(stream) == Cardinality({k \in 1..Len(stream) : Includes(stream[k], <<"|">>)})
LogOutputs(limit) ==
    IF limit = 0 THEN { << <<>> >> }
    ELSE {s \in ShortStreams \cup ScenarioStreams \cup HeaderStreams : CommitLinesOf(s) <= limit}

\* The working tree: what fs.stat and fs.readFile answer, by the name of the file
Basename(p) == LET segs == NonEmptySegs(p) IN IF segs = <<>> THEN <<>> ELSE segs[Len(segs)]
MissingNames == {<<"b">>, <<"$","(","x",")">>, <<"m","0">>, <<"m","1">>, <<"m","2">>,
                 <<"m","3">>, <<"m","4">>, <<"m","5">>, <<"m","6">>, <<"m","7">>,
                 <<"m","8">>, <<"m","9">>, <<"m","a">>}
StatWorld(fullPath) ==
    LET name == Basename(fullPath) IN
    IF name \in MissingNames THEN [ok |-> FALSE, size |-> 0]
    ELSE IF name = <<"b","i","g">> THEN [ok |-> TRUE, size |-> 1024 * 1024 + 1]
    ELSE IF name = <<"x">> THEN [ok |-> TRUE, size |-> 1024 * 1024]
    ELSE [ok |-> TRUE, size |-> 6]
ReadWorld(fullPath) ==
    LET name == Basename(fullPath) IN
    IF name = <<"c">> THEN Throw("EACCES")
    ELSE IF name = <<"a",".","t","s">> THEN Ok(<<"i","f","(","x",")","{">>)
    ELSE Ok(<<"x">>)
\* what the author-history pipeline prints for a path (Throw: timeout or failure)
AuthorWorld(path) ==
    IF path = <<"b","i","g">> THEN Throw("timeout")
    ELSE IF path = <<"a",".","t","s">>
         THEN Ok(<<" "," "," ","2"," ","A","l","\n"," "," "," ","1"," ","B","o","\n">>)
    ELSE IF path \in MissingNames THEN Ok(<<>>)
    ELSE Ok(<<" "," "," ","1"," ","A","l","\n">>)

(***************************************************************************)
(* parseGitLog as a state machine                                          *)
(***************************************************************************)
Init ==
    /\ pc = "start" /\ sanitizedRepoPath = <<>> /\ sizeBytes = 0 /\ commitLimit = 0
    /\ logCmd = <<>> /\ lines = <<>> /\ i = 0 /\ currentCommit = <<>> /\ commits = <<>>
    /\ fileMap = <<>> /\ sizeTask = <<>> /\ authorTask = <<>> /\ batchI = 0
    /\ fsCalls = {} /\ authorCmds = {} /\ outcome = "running"
    /\ sanFn = "none" /\ sanIn = <<>> /\ sanOut = Ok(<<>>)
    /\ gwPc = "idle" /\ gwReq = <<>> /\ gwCmd = <<>> /\ gwResp = <<>>
    /\ apiPc = "idle" /\ apiReq = <<>> /\ apiResp = <<>>

\* line 193, for the path parseGitLog is called with
SanitizePathOf(repoPath) ==
    /\ pc = "start"
    /\ LET r == sanitizeRepositoryPath(repoPath) IN
       IF r.ok THEN /\ sanitizedRepoPath' = r.val /\ pc' = "size" /\ UNCHANGED outcome
       ELSE /\ pc' = "failed" /\ outcome' = r.val /\ UNCHANGED sanitizedRepoPath
    /\ UNCHANGED <<sizeBytes, commitLimit, logCmd, lines, i, currentCommit, commits, fileMap,
                   sizeTask, authorTask, batchI, fsCalls, authorCmds>>

\* parseGitLog called on its own
SanitizePath ==
    /\ \E repoPath \in PipelineRepoPaths : SanitizePathOf(repoPath)
    /\ UNCHANGED <<sanVars, gwVars, apiVars>>

\* lines 196-206
CheckSize ==
    /\ pc = "size"
    /\ \E measured \in MeasuredSizes :
         LET cs == checkRepositorySize(measured) IN
         /\ sizeBytes' = cs.sizeBytes
         /\ IF TooLarge(cs.sizeBytes)
            THEN /\ pc' = "failed" /\ outcome' = "Repository too large" /\ UNCHANGED commitLimit
            ELSE /\ commitLimit' = Min(cs.estimatedCommits, MAX_COMMITS)
                 /\ pc' = "log" /\ UNCHANGED outcome
    /\ UNCHANGED <<sanitizedRepoPath, logCmd, lines, i, currentCommit, commits, fileMap,
                   sizeTask, authorTask, batchI, fsCalls, authorCmds>>
    /\ UNCHANGED <<sanVars, gwVars, apiVars>>

\* lines 209-216: the history log command is invoked
InvokeLog ==
    /\ pc = "log"
    /\ logCmd' = <<[maxCount |-> commitLimit]>>
    /\ pc' = "logRunning"
    /\ UNCHANGED <<sanitizedRepoPath, sizeBytes, commitLimit, lines, i, currentCommit, commits,
                   fileMap, sizeTask, authorTask, batchI, fsCalls, authorCmds, outcome>>
    /\ UNCHANGED <<sanVars, gwVars, apiVars>>

\* a failed log read logged and taken as an empty history
LogFailsSwallowed ==
    /\ pc = "logRunning"
    /\ \E err \in {"timeout", "maxBuffer exceeded"} : outcome' = err
    /\ lines' = << <<>> >>
    /\ i' = 0 /\ currentCommit' = <<>> /\ commits' = <<>> /\ fileMap' = <<>>
    /\ pc' = "parse"
    /\ UNCHANGED <<sanitizedRepoPath, sizeBytes, commitLimit, logCmd, sizeTask, authorTask,
                   batchI, fsCalls, authorCmds>>
    /\ UNCHANGED <<sanVars, gwVars, apiVars>>

\* the log command exceeds its timeout or its output buffer: the run's catch rethrows
LogFails ==
    /\ pc = "logRunning"
    /\ \E err \in {"timeout", "maxBuffer exceeded"} : outcome' = err
    /\ pc' = "failed"
    /\ UNCHANGED <<sanitizedRepoPath, sizeBytes, commitLimit, logCmd, lines, i, currentCommit,
                   commits, fileMap, sizeTask, authorTask, batchI, fsCalls, authorCmds>>
    /\ UNCHANGED <<sanVars, gwVars, apiVars>>

\* lines 218-223
LogReturns ==
    /\ pc = "logRunning"
    /\ \E out \in LogOutputs(commitLimit) : lines' = out
    /\ i' = 0 /\ currentCommit' = <<>> /\ commits' = <<>> /\ fileMap' = <<>>
    /\ pc' = "parse"
    /\ UNCHANGED <<sanitizedRepoPath, sizeBytes, commitLimit, logCmd, sizeTask, authorTask,
                   batchI, fsCalls, authorCmds, outcome>>
    /\ UNCHANGED <<sanVars, gwVars, apiVars>>

\* lines 225-292: one iteration of the line loop
ParseLine ==
    /\ pc = "parse"
    /\ i < Len(lines)
    /\ LET st == LoopBody([i |-> i, currentCommit |-> currentCommit, commits |-> commits,
                           fileMap |-> fileMap], lines[i + 1])
       IN  /\ i' = st.i /\ currentCommit' = st.currentCommit
           /\ commits' = st.commits /\ fileMap' = st.fileMap
    /\ UNCHANGED <<pc, sanitizedRepoPath, sizeBytes, commitLimit, logCmd, lines, sizeTask,
                   authorTask, batchI, fsCalls, authorCmds, outcome>>
    /\ UNCHANGED <<sanVars, gwVars, apiVars>>

\* the end of the stream reached without pushing the open commit
FlushLastDropped ==
    /\ pc = "parse"
    /\ i >= Len(lines)
    /\ pc' = "mapSize"
    /\ UNCHANGED <<sanitizedRepoPath, sizeBytes, commitLimit, logCmd, lines, i, currentCommit,
                   commits, fileMap, sizeTask, authorTask, batchI, fsCalls, authorCmds, outcome>>
    /\ UNCHANGED <<sanVars, gwVars, apiVars>>

\* lines 294-297
FlushLast ==
    /\ pc = "parse"
    /\ i >= Len(lines)
    /\ commits' = IF currentCommit # <<>> THEN commits \o currentCommit ELSE commits
    /\ pc' = "mapSize"
    /\ UNCHANGED <<sanitizedRepoPath, sizeBytes, commitLimit, logCmd, lines, i, currentCommit,
                   fileMap, sizeTask, authorTask, batchI, fsCalls, authorCmds, outcome>>
    /\ UNCHANGED <<sanVars, gwVars, apiVars>>


\* line 302
FullPath(k) == PathJoin(sanitizedRepoPath, fileMap[k].path)
\* lines 305-306: the check that lets a task go on to fs.stat
StaysInRepo(root, fullPath) == StartsWith(PathResolve(fullPath), root)

Settle(tasks, k) == [tasks EXCEPT ![k] = "settled"]

\* lines 300-340: Array.map calls the async callback of every entry at once; each
\* runs up to its first await (fs.stat), or returns at the path check
StartFileProcessing ==
    /\ pc = "mapSize"
    /\ sizeTask' = [k \in 1..Len(fileMap) |->
                      IF StaysInRepo(sanitizedRepoPath, FullPath(k)) THEN "stat" ELSE "settled"]
    /\ fsCalls' = fsCalls \cup {[op |-> "stat", path |-> FullPath(k)] :
                      k \in {j \in 1..Len(fileMap) : StaysInRepo(sanitizedRepoPath, FullPath(j))}}
    /\ batchI' = 0
    /\ pc' = "awaitSize"
    /\ UNCHANGED <<sanitizedRepoPath, sizeBytes, commitLimit, logCmd, lines, i, currentCommit,
                   commits, fileMap, authorTask, authorCmds, outcome>>
    /\ UNCHANGED <<sanVars, gwVars, apiVars>>

\* a file of exactly 1 MiB taken as oversized
OversizedInclusive(size) == size >= 1024 * 1024
\* line 315
Oversized(size) == size > 1024 * 1024

\* lines 311-320 and 332-339: the stat of task k settles
StatSettles(k) ==
    /\ pc = "awaitSize"
    /\ sizeTask[k] = "stat"
    /\ LET st == StatWorld(FullPath(k)) IN
       IF ~st.ok THEN
            /\ fileMap' = [fileMap EXCEPT ![k].isDeleted = TRUE, ![k].currentSize = 0,
                                          ![k].maxComplexity = Set(0), ![k].avgComplexity = Set(0)]
            /\ sizeTask' = Settle(sizeTask, k)
            /\ UNCHANGED fsCalls
       ELSE IF Oversized(st.size) THEN
            /\ fileMap' = [fileMap EXCEPT ![k].currentSize = st.size,
                                          ![k].maxComplexity = Set(1), ![k].avgComplexity = Set(1)]
            /\ sizeTask' = Settle(sizeTask, k)
            /\ UNCHANGED fsCalls
       ELSE
            /\ fileMap' = [fileMap EXCEPT ![k].currentSize = st.size]
            /\ sizeTask' = [sizeTask EXCEPT ![k] = "read"]
            /\ fsCalls' = fsCalls \cup {[op |-> "readFile", path |-> FullPath(k)]}
    /\ UNCHANGED <<pc, sanitizedRepoPath, sizeBytes, commitLimit, logCmd, lines, i, currentCommit,
                   commits, authorTask, batchI, authorCmds, outcome>>
    /\ UNCHANGED <<sanVars, gwVars, apiVars>>

\* the read without a catch of its own: a failed read lands in the catch of the stat
ReadSettlesOuterCatch(k) ==
    /\ pc = "awaitSize"
    /\ sizeTask[k] = "read"
    /\ LET rd == ReadWorld(FullPath(k)) IN
       IF rd.ok
       THEN fileMap' = [fileMap EXCEPT
                ![k].maxComplexity = Set(calculateComplexity(rd.val, fileMap[k].language)),
                ![k].avgComplexity = Set(calculateComplexity(rd.val, fileMap[k].language))]
       ELSE fileMap' = [fileMap EXCEPT ![k].isDeleted = TRUE, ![k].currentSize = 0,
                                       ![k].maxComplexity = Set(0), ![k].avgComplexity = Set(0)]
    /\ sizeTask' = Settle(sizeTask, k)
    /\ UNCHANGED <<pc, sanitizedRepoPath, sizeBytes, commitLimit, logCmd, lines, i, currentCommit,
                   commits, authorTask, batchI, fsCalls, authorCmds, outcome>>
    /\ UNCHANGED <<sanVars, gwVars, apiVars>>

\* lines 321-331: the read of task k settles
ReadSettles(k) ==
    /\ pc = "awaitSize"
    /\ sizeTask[k] = "read"
    /\ LET rd == ReadWorld(FullPath(k))
           complexity == IF rd.ok THEN calculateComplexity(rd.val, fileMap[k].language) ELSE 1
       IN  fileMap' = [fileMap EXCEPT ![k].maxComplexity = Set(complexity),
                                      ![k].avgComplexity = Set(complexity)]
    /\ sizeTask' = Settle(sizeTask, k)
    /\ UNCHANGED <<pc, sanitizedRepoPath, sizeBytes, commitLimit, logCmd, lines, i, currentCommit,
                   commits, authorTask, batchI, fsCalls, authorCmds, outcome>>
    /\ UNCHANGED <<sanVars, gwVars, apiVars>>

BatchSettled(tasks, from, width) ==
    \A k \in (from + 1)..Min(from + width, Len(tasks)) : tasks[k] = "settled"

\* lines 344-347: await Promise.allSettled(batch) returns, i += CONCURRENCY_LIMIT
AwaitSizeBatch ==
    /\ pc = "awaitSize"
    /\ batchI < Len(sizeTask)
    /\ BatchSettled(sizeTask, batchI, CONCURRENCY_LIMIT)
    /\ batchI' = batchI + CONCURRENCY_LIMIT
    /\ UNCHANGED <<pc, sanitizedRepoPath, sizeBytes, commitLimit, logCmd, lines, i, currentCommit,
                   commits, fileMap, sizeTask, authorTask, fsCalls, authorCmds, outcome>>
    /\ UNCHANGED <<sanVars, gwVars, apiVars>>

\* lines 363-366
StripCount(line) ==
    LET t == Trim(line)
        r1 == SkipDigits(t)
        r2 == TrimStart(r1)
    IN  IF r1 # t /\ r2 # r1 THEN r2 ELSE t
ParseAuthors(stdout) ==
    LET outLines == Split(stdout, "\n")
        names == [k \in 1..Len(outLines) |-> StripCount(outLines[k])]
    IN  SelectSeq(names, LAMBDA a : Len(a) > 0 /\ Len(a) < 100)

\* the author pass started without the size batches awaited
StartAuthorExtractionUnawaited ==
    /\ pc = "awaitSize"
    /\ authorTask' = [k \in 1..Len(fileMap) |->
                        IF sanitizeFilePath(fileMap[k].path).ok THEN "exec" ELSE "settled"]
    /\ authorCmds' = authorCmds \cup
                        {sanitizeFilePath(fileMap[k].path).val :
                            k \in {j \in 1..Len(fileMap) : sanitizeFilePath(fileMap[j].path).ok}}
    /\ fileMap' = [k \in 1..Len(fileMap) |->
                        IF sanitizeFilePath(fileMap[k].path).ok THEN fileMap[k]
                        ELSE [fileMap[k] EXCEPT !.primaryAuthors = Set(<<>>)]]
    /\ batchI' = 0
    /\ pc' = "awaitAuthor"
    /\ UNCHANGED <<sanitizedRepoPath, sizeBytes, commitLimit, logCmd, lines, i, currentCommit,
                   commits, sizeTask, fsCalls, outcome>>
    /\ UNCHANGED <<sanVars, gwVars, apiVars>>

\* lines 350-373: every author callback runs at once up to its execAsync call;
\* a path that sanitizeFilePath refuses settles with an empty author list
StartAuthorExtraction ==
    /\ pc = "awaitSize"
    /\ batchI >= Len(sizeTask)
    /\ authorTask' = [k \in 1..Len(fileMap) |->
                        IF sanitizeFilePath(fileMap[k].path).ok THEN "exec" ELSE "settled"]
    /\ authorCmds' = authorCmds \cup
                        {sanitizeFilePath(fileMap[k].path).val :
                            k \in {j \in 1..Len(fileMap) : sanitizeFilePath(fileMap[j].path).ok}}
    /\ fileMap' = [k \in 1..Len(fileMap) |->
                        IF sanitizeFilePath(fileMap[k].path).ok THEN fileMap[k]
                        ELSE [fileMap[k] EXCEPT !.primaryAuthors = Set(<<>>)]]
    /\ batchI' = 0
    /\ pc' = "awaitAuthor"
    /\ UNCHANGED <<sanitizedRepoPath, sizeBytes, commitLimit, logCmd, lines, i, currentCommit,
                   commits, sizeTask, fsCalls, outcome>>
    /\ UNCHANGED <<sanVars, gwVars, apiVars>>

\* the author callback without its catch, awaited by Promise.all: a failed subprocess
\* rejects the run
AuthorSettlesFailFast(k) ==
    /\ pc = "awaitAuthor"
    /\ authorTask[k] = "exec"
    /\ LET r == AuthorWorld(fileMap[k].path) IN
       IF r.ok THEN /\ fileMap' = [fileMap EXCEPT ![k].primaryAuthors = Set(ParseAuthors(r.val))]
                    /\ UNCHANGED <<pc, outcome>>
       ELSE /\ pc' = "failed" /\ outcome' = r.val /\ UNCHANGED fileMap
    /\ authorTask' = Settle(authorTask, k)
    /\ UNCHANGED <<sanitizedRepoPath, sizeBytes, commitLimit, logCmd, lines, i, currentCommit,
                   commits, sizeTask, batchI, fsCalls, authorCmds>>
    /\ UNCHANGED <<sanVars, gwVars, apiVars>>

\* the author callbacks writing through one shared record variable: the authors of
\* task k land in every record
AuthorSettlesSharedRecord(k) ==
    /\ pc = "awaitAuthor"
    /\ authorTask[k] = "exec"
    /\ LET r == AuthorWorld(fileMap[k].path)
           authors == IF r.ok THEN ParseAuthors(r.val) ELSE <<>>
       IN  fileMap' = [j \in 1..Len(fileMap) |-> [fileMap[j] EXCEPT !.primaryAuthors = Set(authors)]]
    /\ authorTask' = Settle(authorTask, k)
    /\ UNCHANGED <<pc, sanitizedRepoPath, sizeBytes, commitLimit, logCmd, lines, i, currentCommit,
                   commits, sizeTask, batchI, fsCalls, authorCmds, outcome>>
    /\ UNCHANGED <<sanVars, gwVars, apiVars>>

\* lines 354-372: the author-history subprocess of task k settles
AuthorSettles(k) ==
    /\ pc = "awaitAuthor"
    /\ authorTask[k] = "exec"
    /\ LET r == AuthorWorld(fileMap[k].path)
           authors == IF r.ok THEN ParseAuthors(r.val) ELSE <<>>
       IN  fileMap' = [fileMap EXCEPT ![k].primaryAuthors = Set(authors)]
    /\ authorTask' = Settle(authorTask, k)
    /\ UNCHANGED <<pc, sanitizedRepoPath, sizeBytes, commitLimit, logCmd, lines, i, currentCommit,
                   commits, sizeTask, batchI, fsCalls, authorCmds, outcome>>
    /\ UNCHANGED <<sanVars, gwVars, apiVars>>

\* lines 377-380
AwaitAuthorBatch ==
    /\ pc = "awaitAuthor"
    /\ batchI < Len(authorTask)
    /\ BatchSettled(authorTask, batchI, AUTHOR_CONCURRENCY_LIMIT)
    /\ batchI' = batchI + AUTHOR_CONCURRENCY_LIMIT
    /\ UNCHANGED <<pc, sanitizedRepoPath, sizeBytes, commitLimit, logCmd, lines, i, currentCommit,
                   commits, fileMap, sizeTask, authorTask, fsCalls, authorCmds, outcome>>
    /\ UNCHANGED <<sanVars, gwVars, apiVars>>

\* line 382
Return ==
    /\ pc = "awaitAuthor"
    /\ batchI >= Len(authorTask)
    /\ pc' = "done"
    /\ outcome' = "returned"
    /\ UNCHANGED <<sanitizedRepoPath, sizeBytes, commitLimit, logCmd, lines, i, currentCommit,
                   commits, fileMap, sizeTask, authorTask, batchI, fsCalls, authorCmds>>
    /\ UNCHANGED <<sanVars, gwVars, apiVars>>

Next ==
    \/ SanitizePath
    \/ CheckSize
    \/ InvokeLog
    \/ LogFails
    \/ LogReturns
    \/ ParseLine
    \/ FlushLast
    \/ StartFileProcessing
    \/ \E k \in 1..Len(sizeTask) : StatSettles(k)
    \/ \E k \in 1..Len(sizeTask) : ReadSettles(k)
    \/ AwaitSizeBatch
    \/ StartAuthorExtraction
    \/ \E k \in 1..Len(authorTask) : AuthorSettles(k)
    \/ AwaitAuthorBatch
    \/ Return

Spec == Init /\ [][Next]_vars


(***************************************************************************)
(* The sanitizers applied to enumerated inputs                             *)
(***************************************************************************)
\* the longest parameter string enumerated
MaxParamLen == 3
ParamAlphabet == {"a", " ", ";", "&", "|", BACKTICK, "$", "(", ")", "{", "}", "[", "]", "\\"}
Params == UNION {[1..n -> ParamAlphabet] : n \in 0..MaxParamLen}

\* /tmp/r  /tmp/r/  /tmp  /tmpX/r  /etc  /tmp/../etc  /tmp/a..b  /tmp/~x  r  ../x
\* /home/u/p  /home/user2  /var/tmp/q  /var/tmpfoo  /tmp/./r//s  and the empty string
RepoPathInputs == {
    <<"/","t","m","p","/","r">>,
    <<"/","t","m","p","/","r","/">>,
    <<"/","t","m","p">>,
    <<"/","t","m","p","X","/","r">>,
    <<"/","e","t","c">>,
    <<"/","t","m","p","/",".",".","/","e","t","c">>,
    <<"/","t","m","p","/","a",".",".","b">>,
    <<"/","t","m","p","/","~","x">>,
    <<"r">>,
    <<".",".","/","x">>,
    <<"/","h","o","m","e","/","u","/","p">>,
    <<"/","h","o","m","e","/","u","s","e","r","2">>,
    <<"/","v","a","r","/","t","m","p","/","q">>,
    <<"/","v","a","r","/","t","m","p","f","o","o">>,
    <<"/","t","m","p","/",".","/","r","/","/","s">>,
    <<>> }

ApplyRepositoryPath ==
    /\ sanFn = "none"
    /\ \E p \in RepoPathInputs :
         /\ sanIn' = p
         /\ sanOut' = sanitizeRepositoryPath(p)
    /\ sanFn' = "sanitizeRepositoryPath"
    /\ UNCHANGED <<pipelineVars, gwVars, apiVars>>

ApplyFilePath ==
    /\ sanFn = "none"
    /\ \E p \in Params :
         /\ sanIn' = p
         /\ sanOut' = sanitizeFilePath(p)
    /\ sanFn' = "sanitizeFilePath"
    /\ UNCHANGED <<pipelineVars, gwVars, apiVars>>

ApplyGitParameter ==
    /\ sanFn = "none"
    /\ \E p \in Params :
         /\ sanIn' = p
         /\ sanOut' = sanitizeGitParameter(p)
    /\ sanFn' = "sanitizeGitParameter"
    /\ UNCHANGED <<pipelineVars, gwVars, apiVars>>

\* Contents given to calculateComplexity are built from tokens: each control keyword,
\* async and await followed by a blank, the two braces, and the words "iffy " and
\* "x_if " that hold a keyword without being one
KeywordTokens == {
    <<"i","f"," ">>,
    <<"e","l","s","e"," ">>,
    <<"w","h","i","l","e"," ">>,
    <<"f","o","r"," ">>,
    <<"s","w","i","t","c","h"," ">>,
    <<"c","a","s","e"," ">>,
    <<"t","r","y"," ">>,
    <<"c","a","t","c","h"," ">>,
    <<"f","u","n","c","t","i","o","n"," ">>,
    <<"c","l","a","s","s"," ">>,
    <<"r","e","t","u","r","n"," ">> }
AsyncTokens == { <<"a","s","y","n","c"," ">>, <<"a","w","a","i","t"," ">> }
OpenBrace == <<"{">>
CloseBrace == <<"}">>
PlainTokens == { <<"i","f","f","y"," ">>, <<"x","_","i","f"," ">> }
Tokens == KeywordTokens \cup AsyncTokens \cup {OpenBrace, CloseBrace} \cup PlainTokens
\* the longest content enumerated token by token
MaxTokens == 2
ShortContents == UNION {[1..n -> Tokens] : n \in 0..MaxTokens}
Repeat(tok, n) == [k \in 1..n |-> tok]
\* contents whose score is just below, at, and above the cap: 48 to 50 open braces
\* followed by at most one more token
LongContents ==
    {Repeat(OpenBrace, n) \o t : n \in {48, 49, 50}, t \in UNION {[1..m -> Tokens] : m \in 0..1}}
ComplexityContents == ShortContents \cup LongContents
\* what detectLanguage can return, and an absent language
ComplexityLanguages == {"typescript", "javascript", "python", "undefined"}
RECURSIVE Flatten(_)
Flatten(toks) == IF toks = <<>> THEN <<>> ELSE Head(toks) \o Flatten(Tail(toks))

ApplyComplexity ==
    /\ sanFn = "none"
    /\ \E toks \in ComplexityContents, language \in ComplexityLanguages :
         /\ sanIn' = [tokens |-> toks, language |-> language]
         /\ sanOut' = Ok(calculateComplexity(Flatten(toks), language))
    /\ sanFn' = "calculateComplexity"
    /\ UNCHANGED <<pipelineVars, gwVars, apiVars>>

NextSan ==
    \/ ApplyRepositoryPath
    \/ ApplyFilePath
    \/ ApplyGitParameter
    \/ ApplyComplexity

SpecSan == Init /\ [][NextSan]_vars

(***************************************************************************)
(* The query gateway: GET and POST of the log route                        *)
(***************************************************************************)
\* a value that may be null (an absent query parameter or JSON field)
Null == <<>>
Some(v) == <<v>>
\* a string is truthy when it is present and not empty
Truthy(o) == o # Null /\ o[1] # <<>>

\* directories fs.access finds: /tmp/r
ExistingRepos == { <<"/","t","m","p","/","r">> }
\* absent, /tmp/r, /tmp/gone (allowed, missing), /etc (not allowed)
GwPaths == { Null, Some(<<"/","t","m","p","/","r">>),
             Some(<<"/","t","m","p","/","g","o","n","e">>), Some(<<"/","e","t","c">>) }

\* lines 84-94 and 245-255: the path is sanitized and must exist
ResolveRepo(repoPath) ==
    LET r == sanitizeRepositoryPath(repoPath) IN
    IF ~r.ok THEN r
    ELSE IF r.val \notin ExistingRepos THEN Throw("Repository path not found")
    ELSE r

Formats == {"pretty", "oneline", "short", "fuller"}
\* max-count absent, or '' / '0' / '-5' / '1' / '100' / '1000' / '1001' / '5000' / 'abc' / '12abc'
MaxCountParams == {
    Null,
    Some(<<>>),
    Some(<<"0">>),
    Some(<<"-","5">>),
    Some(<<"1">>),
    Some(<<"1","0","0">>),
    Some(<<"1","0","0","0">>),
    Some(<<"1","0","0","1">>),
    Some(<<"5","0","0","0">>),
    Some(<<"a","b","c">>),
    Some(<<"1","2","a","b","c">>) }

FilterNames == <<"since", "until", "author", "grep", "file">>
\* a filter is absent, or 'a', or 'a;', or ' a'
FilterValues == { Null, Some(<<"a">>), Some(<<"a",";">>), Some(<<" ","a">>) }
\* the most filters one request supplies
MaxFilters == 2
FilterChoices ==
    {f \in [Range(FilterNames) -> FilterValues] :
        Cardinality({n \in Range(FilterNames) : f[n] # Null}) <= MaxFilters}

Fragment(opt, arg) == [opt |-> opt, arg |-> arg]

\* line 68
ParseMaxCount(param) == ParseInt(IF Truthy(param) THEN param[1] ELSE <<"1","0","0">>)

\* lines 99-106
FormatFragment(format) ==
    IF format = "pretty" THEN <<Fragment("--pretty=format:%H|%s|%an|%ae|%ct|%P", Null)>>
    ELSE IF format = "oneline" THEN <<Fragment("--oneline", Null)>>
    ELSE IF format = "short" THEN <<Fragment("--pretty=short", Null)>>
    ELSE <<>>

\* lines 117-119
MaxCountFragment(maxCount) ==
    IF ~maxCount.nan /\ maxCount.val > 0 /\ maxCount.val <= 1000
    THEN <<Fragment("--max-count", Some(maxCount.val))>>
    ELSE <<>>

FilterOption(name) ==
    CASE name = "since" -> "--since" [] name = "until" -> "--until"
      [] name = "author" -> "--author" [] name = "grep" -> "--grep" [] name = "file" -> "--"

\* every supplied filter appended as received
RECURSIVE AddFiltersUnsanitized(_, _, _)
AddFiltersUnsanitized(cmd, names, filters) ==
    IF names = <<>> THEN Ok(cmd)
    ELSE LET v == filters[Head(names)] IN
         IF ~Truthy(v) THEN AddFiltersUnsanitized(cmd, Tail(names), filters)
         ELSE AddFiltersUnsanitized(Append(cmd, Fragment(FilterOption(Head(names)), v)),
                                    Tail(names), filters)

\* lines 122-146: each supplied filter is sanitized, then appended; the first
\* refusal throws out of the handler body
RECURSIVE AddFilters(_, _, _)
AddFilters(cmd, names, filters) ==
    IF names = <<>> THEN Ok(cmd)
    ELSE LET v == filters[Head(names)] IN
         IF ~Truthy(v) THEN AddFilters(cmd, Tail(names), filters)
         ELSE LET s == sanitizeGitParameter(v[1]) IN
              IF ~s.ok THEN s
              ELSE AddFilters(Append(cmd, Fragment(FilterOption(Head(names)), Some(s.val))),
                              Tail(names), filters)

\* lines 96-146: gitCommand as the sequence of the pieces appended to it
BuildLogCommand(req) ==
    AddFilters(<<Fragment("git log", Null)>>
                 \o FormatFragment(req.format)
                 \o (IF req.stat THEN <<Fragment("--stat", Null)>> ELSE <<>>)
                 \o (IF req.numstat THEN <<Fragment("--numstat", Null)>> ELSE <<>>)
                 \o MaxCountFragment(ParseMaxCount(req.maxCount)),
               FilterNames, req.filters)

Response(status, error, allowed, command) ==
    [status |-> status, error |-> error, allowedCommands |-> allowed, command |-> command]

\* lines 57-148: GET up to the execAsync call
GetReceive ==
    /\ gwPc = "idle"
    /\ \E path \in GwPaths, format \in Formats, maxCount \in MaxCountParams,
          filters \in FilterChoices, stat \in BOOLEAN, numstat \in BOOLEAN :
         LET req == [method |-> "GET", path |-> path, format |-> format, maxCount |-> maxCount,
                     filters |-> filters, stat |-> stat, numstat |-> numstat,
                     command |-> Null]
             repo == IF Truthy(path) THEN ResolveRepo(path[1]) ELSE Throw("none")
             cmd == BuildLogCommand(req)
         IN  /\ gwReq' = req
             /\ IF ~Truthy(path) THEN
                    /\ gwResp' = Some(Response(400, "Repository path is required", <<>>, Null))
                    /\ gwPc' = "responded" /\ UNCHANGED gwCmd
                ELSE IF ~repo.ok THEN
                    /\ gwResp' = Some(Response(404, repo.val, <<>>, Null))
                    /\ gwPc' = "responded" /\ UNCHANGED gwCmd
                ELSE IF ~cmd.ok THEN
                    /\ gwResp' = Some(Response(500, "Failed to execute git log", <<>>, Null))
                    /\ gwPc' = "responded" /\ UNCHANGED gwCmd
                ELSE
                    /\ gwCmd' = Some([kind |-> "log", cwd |-> repo.val, line |-> cmd.val])
                    /\ gwPc' = "executing" /\ UNCHANGED gwResp
    /\ UNCHANGED <<pipelineVars, sanVars, apiVars>>

\* lines 150-226: the subprocess of GET settles
GetExecSettles ==
    /\ gwPc = "executing"
    /\ gwReq.method = "GET"
    /\ \E result \in {"stdout", "stderr only", "timeout", "error"} :
         gwResp' = Some(
            CASE result = "stdout" -> Response(200, "", <<>>, Some(gwCmd[1].line))
              [] result = "stderr only" -> Response(500, "Git command failed", <<>>, Null)
              [] result = "timeout" -> Response(408, "Git operation timed out", <<>>, Null)
              [] result = "error" -> Response(500, "Failed to execute git log", <<>>, Null))
    /\ gwPc' = "responded"
    /\ UNCHANGED <<gwReq, gwCmd>>
    /\ UNCHANGED <<pipelineVars, sanVars, apiVars>>

\* lines 258-268
allowedCommands == <<
    <<"g","i","t"," ","l","o","g">>,
    <<"g","i","t"," ","s","h","o","w">>,
    <<"g","i","t"," ","d","i","f","f">>,
    <<"g","i","t"," ","b","l","a","m","e">>,
    <<"g","i","t"," ","l","s","-","f","i","l","e","s">>,
    <<"g","i","t"," ","r","e","v","-","l","i","s","t">>,
    <<"g","i","t"," ","b","r","a","n","c","h">>,
    <<"g","i","t"," ","t","a","g">>,
    <<"g","i","t"," ","s","t","a","t","u","s"," ","-","-","p","o","r","c","e","l","a","i","n">> >>

\* the whitelist matched anywhere in the command instead of at its start
IsAllowedCommandAnywhere(command) ==
    \E k \in 1..Len(allowedCommands) : Includes(command, allowedCommands[k])
\* line 270
IsAllowedCommand(command) ==
    \E k \in 1..Len(allowedCommands) : StartsWith(command, allowedCommands[k])

\* 'git log --oneline' / 'git push origin main' / 'git log; rm -rf x' / 'git branch -D x'
\* 'git status' / ' git log' / 'rm x' / 'git'
OtherCommands == {
    <<"g","i","t"," ","l","o","g"," ","-","-","o","n","e","l","i","n","e">>,
    <<"g","i","t"," ","p","u","s","h"," ","o","r","i","g","i","n"," ","m","a","i","n">>,
    <<"g","i","t"," ","l","o","g",";"," ","r","m"," ","-","r","f"," ","x">>,
    <<"g","i","t"," ","b","r","a","n","c","h"," ","-","D"," ","x">>,
    <<"g","i","t"," ","s","t","a","t","u","s">>,
    <<" ","g","i","t"," ","l","o","g">>,
    <<"r","m"," ","x">>,
    <<"g","i","t">> }
\* the command field of a POST body: absent, empty, each whitelisted prefix, and the others
PostCommands ==
    {Null, Some(<<>>)} \cup {Some(c) : c \in Range(allowedCommands) \cup OtherCommands}

NoFilters == [n \in Range(FilterNames) |-> Null]

\* lines 230-282: POST up to the execAsync call
PostReceive ==
    /\ gwPc = "idle"
    /\ \E path \in GwPaths, command \in PostCommands :
         LET req == [method |-> "POST", path |-> path, format |-> "", maxCount |-> Null,
                     filters |-> NoFilters, stat |-> FALSE, numstat |-> FALSE,
                     command |-> command]
             repo == IF Truthy(path) THEN ResolveRepo(path[1]) ELSE Throw("none")
         IN  /\ gwReq' = req
             /\ IF ~Truthy(path) \/ ~Truthy(command) THEN
                    /\ gwResp' = Some(Response(400, "Repository path and command are required",
                                               <<>>, Null))
                    /\ gwPc' = "responded" /\ UNCHANGED gwCmd
                ELSE IF ~repo.ok THEN
                    /\ gwResp' = Some(Response(404, repo.val, <<>>, Null))
                    /\ gwPc' = "responded" /\ UNCHANGED gwCmd
                ELSE IF ~IsAllowedCommand(command[1]) THEN
                    /\ gwResp' = Some(Response(403, "Command not allowed", allowedCommands, Null))
                    /\ gwPc' = "responded" /\ UNCHANGED gwCmd
                ELSE
                    /\ gwCmd' = Some([kind |-> "raw", cwd |-> repo.val, line |-> command[1]])
                    /\ gwPc' = "executing" /\ UNCHANGED gwResp
    /\ UNCHANGED <<pipelineVars, sanVars, apiVars>>

\* lines 278-307: the subprocess of POST settles
PostExecSettles ==
    /\ gwPc = "executing"
    /\ gwReq.method = "POST"
    /\ \E result \in {"stdout", "error"} :
         gwResp' = Some(
            CASE result = "stdout" -> Response(200, "", <<>>, Some(gwCmd[1].line))
              [] result = "error" -> Response(500, "Failed to execute git command", <<>>, Null))
    /\ gwPc' = "responded"
    /\ UNCHANGED <<gwReq, gwCmd>>
    /\ UNCHANGED <<pipelineVars, sanVars, apiVars>>

NextGateway ==
    \/ GetReceive
    \/ GetExecSettles
    \/ PostReceive
    \/ PostExecSettles

SpecGateway == Init /\ [][NextGateway]_vars

(***************************************************************************)
(* The parse endpoint: POST, which runs parseGitLog                        *)
(***************************************************************************)
\* request bodies: repositoryPath absent, empty, /tmp/r, /tmp/gone, /etc; repositoryId
\* absent or "r1"
ApiPaths == GwPaths \cup { Some(<<>>) }
ApiIds == { Null, Some(<<"r","1">>) }

\* lines 401-404: the path is sanitized, then fs.access must find it
ApiResolveRepo(repoPath) ==
    LET r == sanitizeRepositoryPath(repoPath) IN
    IF ~r.ok THEN r
    ELSE IF r.val \notin ExistingRepos THEN Throw("ENOENT: no such file or directory")
    ELSE r

\* NextResponse.json(body, {status})
ApiFailure(status, error, details) ==
    [status |-> status, success |-> FALSE, error |-> error, details |-> details,
     totalCommits |-> 0, totalFiles |-> 0, dateRange |-> Null]
\* lines 393-398
MissingFieldsResponse == ApiFailure(400, "Repository path and ID are required", Null)
\* lines 405-410
NotFoundResponse(message) == ApiFailure(404, message, Null)
\* lines 438-444
ParseFailedResponse(message) == ApiFailure(500, "Failed to parse git repository", Some(message))

MathMin(a, b) == IF a.nan \/ b.nan THEN NaN ELSE IF a.val <= b.val THEN a ELSE b
\* Math.min(...dates) and Math.max(...dates) over a non-empty list of commits
RECURSIVE MinDate(_)
MinDate(cs) == IF Len(cs) = 1 THEN cs[1].date ELSE MathMin(cs[1].date, MinDate(Tail(cs)))
RECURSIVE MaxDate(_)
MaxDate(cs) == IF Len(cs) = 1 THEN cs[1].date ELSE MathMax(cs[1].date, MaxDate(Tail(cs)))
\* lines 415-436
ParsedResponse(cs, files) ==
    [status |-> 200, success |-> TRUE, error |-> Null, details |-> Null,
     totalCommits |-> Len(cs), totalFiles |-> Len(files),
     dateRange |-> IF Len(cs) > 0
                   THEN Some([from |-> MinDate(cs), to |-> MaxDate(cs)])
                   ELSE Null]

\* lines 389-413 and 193: the body is read and checked, the path resolved, and
\* parseGitLog entered up to its first await
ApiReceive ==
    /\ apiPc = "idle"
    /\ \E repositoryPath \in ApiPaths, repositoryId \in ApiIds :
         /\ apiReq' = [repositoryPath |-> repositoryPath, repositoryId |-> repositoryId]
         /\ IF ~Truthy(repositoryPath) \/ ~Truthy(repositoryId)
            THEN /\ apiResp' = Some(MissingFieldsResponse)
                 /\ apiPc' = "responded"
                 /\ UNCHANGED pipelineVars
            ELSE LET r == ApiResolveRepo(repositoryPath[1]) IN
                 IF ~r.ok
                 THEN /\ apiResp' = Some(NotFoundResponse(r.val))
                      /\ apiPc' = "responded"
                      /\ UNCHANGED pipelineVars
                 ELSE /\ SanitizePathOf(r.val)
                      /\ apiPc' = "parsing"
                      /\ UNCHANGED apiResp
    /\ UNCHANGED <<sanVars, gwVars>>

\* lines 413-436: parseGitLog returned
ApiRespondParsed ==
    /\ apiPc = "parsing"
    /\ pc = "done"
    /\ apiResp' = Some(ParsedResponse(commits, fileMap))
    /\ apiPc' = "responded"
    /\ UNCHANGED <<apiReq, pipelineVars, sanVars, gwVars>>

\* lines 437-444: parseGitLog threw
ApiRespondFailed ==
    /\ apiPc = "parsing"
    /\ pc = "failed"
    /\ apiResp' = Some(ParseFailedResponse(outcome))
    /\ apiPc' = "responded"
    /\ UNCHANGED <<apiReq, pipelineVars, sanVars, gwVars>>

NextParseApi ==
    \/ ApiReceive
    \/ CheckSize
    \/ InvokeLog
    \/ LogFails
    \/ LogReturns
    \/ ParseLine
    \/ FlushLast
    \/ StartFileProcessing
    \/ \E k \in 1..Len(sizeTask) : StatSettles(k)
    \/ \E k \in 1..Len(sizeTask) : ReadSettles(k)
    \/ AwaitSizeBatch
    \/ StartAuthorExtraction
    \/ \E k \in 1..Len(authorTask) : AuthorSettles(k)
    \/ AwaitAuthorBatch
    \/ Return
    \/ ApiRespondParsed
    \/ ApiRespondFailed

SpecParseApi == Init /\ [][NextParseApi]_vars


(***************************************************************************)
(* Properties                                                              *)
(***************************************************************************)
\* the shell metacharacters named by the specification
ShellMeta == {";", "&", "|", BACKTICK, "$", "(", ")", "{", "}", "[", "]", "\\"}
HasShellMeta(s) == \E k \in 1..Len(s) : s[k] \in ShellMeta
HasEdgeWhitespace(s) == s # <<>> /\ (IsWs(s[1]) \/ IsWs(s[Len(s)]))

\* segs is a path-segment-wise prefix of the segments of path
SegmentsUnder(path, base) ==
    LET ps == NonEmptySegs(path)
        bs == NonEmptySegs(base)
    IN  Len(bs) <= Len(ps) /\ SubSeq(ps, 1, Len(bs)) = bs

RECURSIVE SumOver(_, _)
SumOver(f, S) ==
    IF S = {} THEN 0
    ELSE LET x == CHOOSE y \in S : TRUE IN f[x] + SumOver(f, S \ {x})

\* positions (1-based) of the well-formed header lines of the stream, in order
HeaderPositions == SelectSeq([n \in 1..Len(lines) |-> n], LAMBDA n : IsCommitLine(Trim(lines[n])))
\* the lines between the k-th header and the next one
BlockOf(k) ==
    LET from == HeaderPositions[k]
        to == IF k < Len(HeaderPositions) THEN HeaderPositions[k + 1] - 1 ELSE Len(lines)
    IN  (from + 1)..to
\* a file-change line the parser accepts: numeric-stat shape, three tab fields, clean path
IsAcceptedFileLine(raw) ==
    LET line == Trim(raw)
        parts == Split(line, "\t")
    IN  /\ MatchesNumstat(line)
        /\ Len(parts) >= 3
        /\ sanitizeFilePath(parts[3]).ok
\* the first and the second numeric field of a numeric-stat line
FirstNumber(raw) == ParseInt(Trim(raw)).val
SecondNumber(raw) == ParseInt(TrimStart(SkipDigits(Trim(raw)))).val
ExpectedAdded(k) ==
    SumOver([n \in BlockOf(k) |-> FirstNumber(lines[n])],
            {n \in BlockOf(k) : IsAcceptedFileLine(lines[n])})
ExpectedDeleted(k) ==
    SumOver([n \in BlockOf(k) |-> SecondNumber(lines[n])],
            {n \in BlockOf(k) : IsAcceptedFileLine(lines[n])})

\* C1: every emitted commit's linesAdded is the sum of the first numeric field and its
\* linesDeleted the sum of the second numeric field over the accepted file-change
\* lines between its header and the next header.
C1_CommitSumsMatchLines ==
    pc \in {"mapSize", "awaitSize", "awaitAuthor", "done"} =>
        \A k \in 1..Len(commits) :
            /\ commits[k].linesAdded = ExpectedAdded(k)
            /\ commits[k].linesDeleted = ExpectedDeleted(k)

\* C2: the line loop consumes every line of a finite stream and so terminates: each
\* iteration moves on to the following line, also when the line's path fails
\* sanitization (a state of the loop at a line whose iteration leaves i where it was
\* is a state the loop never leaves)
C2_EveryLineConsumed ==
    (pc = "parse" /\ i < Len(lines)) =>
        LoopBody([i |-> i, currentCommit |-> currentCommit, commits |-> commits,
                  fileMap |-> fileMap], lines[i + 1]).i = i + 1

InFlight(tasks) == Cardinality({k \in 1..Len(tasks) : tasks[k] # "settled"})
BatchesInOrder(tasks, width) ==
    \A j \in 1..Len(tasks), k \in 1..Len(tasks) :
        (j - 1) \div width < (k - 1) \div width => tasks[j] = "settled"

\* C3: at most 10 size/complexity tasks and at most 5 author-extraction calls are
\* started and not yet settled, and no task of a batch is started before every task
\* of the batch before it has settled.
C3_BoundedInFlight ==
    /\ InFlight(sizeTask) <= 10
    /\ InFlight(authorTask) <= 5
    /\ BatchesInOrder(sizeTask, 10)
    /\ BatchesInOrder(authorTask, 5)

\* C4: a file is stat'ed or read only if its resolved absolute path is a
\* path-segment-wise descendant of the sanitized repository root.
C4_StatOnlyInsideRoot ==
    \A c \in fsCalls : SegmentsUnder(PathResolve(c.path), sanitizedRepoPath)

\* C5: sanitizeRepositoryPath accepts an input only if its resolved, normalized path is
\* a descendant of an allowed base directory, and throws for every path outside them.
C5_AcceptsOnlyDescendants ==
    (sanFn = "sanitizeRepositoryPath" /\ sanOut.ok) =>
        \E b \in 1..Len(ALLOWED_BASE_DIRS) :
            SegmentsUnder(PathResolve(PathNormalize(sanIn)), ALLOWED_BASE_DIRS[b])

\* C6 as stated: sanitizeGitParameter throws exactly when the string holds a shell
\* metacharacter, and otherwise returns the input unchanged.
C6_ThrowsIffMeta ==
    sanFn = "sanitizeGitParameter" =>
        (IF HasShellMeta(sanIn) THEN ~sanOut.ok
         ELSE (sanOut.ok /\ sanOut.val = sanIn))

\* C6 amended: sanitizeGitParameter throws when the string holds a shell metacharacter
\* or begins or ends with whitespace, and otherwise returns the input unchanged; it
\* never returns a string different from its input.
C6_ThrowsIffMetaOrPadded ==
    sanFn = "sanitizeGitParameter" =>
        (IF HasShellMeta(sanIn) \/ HasEdgeWhitespace(sanIn) THEN ~sanOut.ok
         ELSE (sanOut.ok /\ sanOut.val = sanIn))

\* a padded string free of metacharacters was refused
C6_Witness ==
    /\ sanFn = "sanitizeGitParameter"
    /\ sanIn = <<"a", " ">>
    /\ ~sanOut.ok

PathsTaken ==
    UNION {Range(commits[k].filesChanged) : k \in 1..Len(commits)}
    \cup UNION {Range(currentCommit[k].filesChanged) : k \in 1..Len(currentCommit)}
    \cup {fileMap[k].path : k \in 1..Len(fileMap)}
    \cup authorCmds

\* C7: no file path holding a shell metacharacter is accepted: none is added to a
\* commit's filesChanged or to the file map, or interpolated into an author-history
\* command line.
C7_NoMetaPathAccepted == \A p \in PathsTaken : ~HasShellMeta(p)

\* C8: when the measured metadata size exceeds 50 MiB the run fails with the
\* repository-too-large error and the history log command is never invoked; the log
\* command is invoked only after the size check has passed.
C8_SizeGuardBeforeLog ==
    /\ sizeBytes > 50 * 1024 * 1024 =>
            /\ logCmd = <<>>
            /\ pc = "failed"
            /\ outcome = "Repository too large"
    /\ logCmd # <<>> =>
            /\ pc \notin {"start", "size", "log"}
            /\ sizeBytes <= 50 * 1024 * 1024

\* an oversized repository failed the run with no log command invoked
C8_Witness ==
    /\ pc = "failed"
    /\ sizeBytes = 50 * 1024 * 1024 + 1
    /\ outcome = "Repository too large"
    /\ logCmd = <<>>

\* C9: whatever the max-count parameter, the log command GET executes carries a
\* commit-count bound of at most 1000.
C9_MaxCountBounded ==
    (gwCmd # Null /\ gwCmd[1].kind = "log") =>
        \E k \in 1..Len(gwCmd[1].line) :
            /\ gwCmd[1].line[k].opt = "--max-count"
            /\ gwCmd[1].line[k].arg[1] <= 1000

\* the nine whitelisted prefixes: log, show, diff, blame, ls-files, rev-list, branch,
\* tag, status --porcelain
WhitelistedPrefixes == {
    <<"g","i","t"," ","l","o","g">>,
    <<"g","i","t"," ","s","h","o","w">>,
    <<"g","i","t"," ","d","i","f","f">>,
    <<"g","i","t"," ","b","l","a","m","e">>,
    <<"g","i","t"," ","l","s","-","f","i","l","e","s">>,
    <<"g","i","t"," ","r","e","v","-","l","i","s","t">>,
    <<"g","i","t"," ","b","r","a","n","c","h">>,
    <<"g","i","t"," ","t","a","g">>,
    <<"g","i","t"," ","s","t","a","t","u","s"," ","-","-","p","o","r","c","e","l","a","i","n">> }
HasWhitelistedPrefix(c) == \E p \in WhitelistedPrefixes : StartsWith(c, p)
GitPushOriginMain ==
    <<"g","i","t"," ","p","u","s","h"," ","o","r","i","g","i","n"," ","m","a","i","n">>
GitLogOneline == <<"g","i","t"," ","l","o","g"," ","-","-","o","n","e","l","i","n","e">>
\* a POST whose path and command are present and whose repository exists
PostReachesWhitelist ==
    /\ gwReq # <<>> /\ gwReq.method = "POST"
    /\ Truthy(gwReq.path) /\ Truthy(gwReq.command)
    /\ gwReq.path[1] \in ExistingRepos

\* C10: POST executes a command only if it starts with one of the nine whitelisted
\* prefixes; any other command is never executed and is answered by a rejection that
\* carries the whitelist; "git log --oneline" is accepted and executed.
C10_WhitelistGate ==
    /\ (gwCmd # Null /\ gwCmd[1].kind = "raw") => HasWhitelistedPrefix(gwCmd[1].line)
    /\ (PostReachesWhitelist /\ ~HasWhitelistedPrefix(gwReq.command[1])) =>
            /\ gwCmd = Null
            /\ gwResp # Null
            /\ gwResp[1].status = 403
            /\ Range(gwResp[1].allowedCommands) = WhitelistedPrefixes
    /\ (PostReachesWhitelist /\ gwReq.command[1] = GitLogOneline) =>
            /\ gwCmd # Null
            /\ gwCmd[1].line = GitLogOneline

\* "git push origin main" was rejected with the whitelist and nothing was executed
C10_Witness ==
    /\ PostReachesWhitelist
    /\ gwReq.command[1] = GitPushOriginMain
    /\ gwCmd = Null
    /\ gwResp # Null /\ gwResp[1].status = 403
    /\ Len(gwResp[1].allowedCommands) = 9

\* a command line the shell splits into more than one command
ChainOperators == {";", "&", "|", BACKTICK, "$", "\n"}
ChainsCommand(c) == \E k \in 1..Len(c) : c[k] \in ChainOperators
\* the first blank-separated word of s
RECURSIVE FirstWord(_)
FirstWord(s) == IF s = <<>> \/ IsWs(Head(s)) THEN <<>> ELSE <<Head(s)>> \o FirstWord(Tail(s))
\* the arguments with which git branch and git tag only list
ListingFlags == { <<>>, <<"-","l">>, <<"-","-","l","i","s","t">>, <<"-","a">>, <<"-","r">> }
ArgsAfter(c, prefix) == TrimStart(SubSeq(c, Len(prefix) + 1, Len(c)))
\* git branch / git tag with a name or a delete flag creates or deletes a ref
CreatesOrDeletesRef(c) ==
    \E prefix \in { <<"g","i","t"," ","b","r","a","n","c","h">>, <<"g","i","t"," ","t","a","g">> } :
        /\ StartsWith(c, prefix)
        /\ FirstWord(ArgsAfter(c, prefix)) \notin ListingFlags

\* C11: no command the whitelist check accepts can mutate repository state: none
\* creates or deletes a branch or tag and none carries a second chained command after
\* the whitelisted prefix.
C11_AcceptedCommandsReadOnly ==
    (gwCmd # Null /\ gwCmd[1].kind = "raw") =>
        /\ ~ChainsCommand(gwCmd[1].line)
        /\ ~CreatesOrDeletesRef(gwCmd[1].line)

\* the number of pipe characters of a line
PipeCount(line) == Cardinality({k \in 1..Len(line) : line[k] = "|"})
\* a header line with all five fields: sha|message|author|email|date
WellFormedHeader(line) == PipeCount(line) = 4
AfterParse == pc \in {"mapSize", "awaitSize", "awaitAuthor", "done"}

\* C12: a log stream of N well-formed 5-field header lines and no file-change lines
\* yields exactly N commit records, each with filesChanged = [], linesAdded = 0 and
\* linesDeleted = 0, and an empty file map.
C12_HeadersOnlyGiveBareCommits ==
    (AfterParse /\ \A n \in 1..Len(lines) : WellFormedHeader(lines[n])) =>
        /\ Len(commits) = Len(lines)
        /\ \A k \in 1..Len(commits) :
              /\ commits[k].filesChanged = <<>>
              /\ commits[k].linesAdded = 0
              /\ commits[k].linesDeleted = 0
        /\ fileMap = <<>>

\* four headers were parsed into four commits
C12_Witness ==
    /\ pc = "done"
    /\ lines = <<LineH1, LineH2, LineH1, LineH2>>
    /\ Len(commits) = 4
    /\ fileMap = <<>>

\* the text of a line before its first pipe character
RECURSIVE FirstField(_)
FirstField(line) ==
    IF line = <<>> \/ Head(line) = "|" THEN <<>> ELSE <<Head(line)>> \o FirstField(Tail(line))
\* a line that begins with a commit hash: a non-empty first field free of whitespace
BeginsWithSha(line) ==
    /\ FirstField(line) # <<>>
    /\ \A k \in 1..Len(FirstField(line)) : ~IsWs(FirstField(line)[k])
\* the stream is made of header lines of which exactly one has four fields
OneShortHeader ==
    /\ \A n \in 1..Len(lines) : BeginsWithSha(lines[n]) /\ PipeCount(lines[n]) \in {3, 4}
    /\ Cardinality({n \in 1..Len(lines) : PipeCount(lines[n]) = 3}) = 1
\* the hashes of the well-formed headers of the stream, in stream order
WellFormedShas ==
    LET at == SelectSeq([n \in 1..Len(lines) |-> n], LAMBDA n : WellFormedHeader(lines[n]))
    IN  [k \in 1..Len(at) |-> FirstField(lines[at[k]])]

\* C13: a stream of N header lines of which exactly one has 4 pipe-delimited fields
\* yields exactly N-1 commit records, one for each well-formed header, and the parse
\* completes without throwing: every line of such a stream is consumed and the run has
\* not failed.
C13_ShortHeaderSkipped ==
    OneShortHeader =>
        /\ (pc = "parse" /\ i < Len(lines)) =>
              LoopBody([i |-> i, currentCommit |-> currentCommit, commits |-> commits,
                        fileMap |-> fileMap], lines[i + 1]).i = i + 1
        /\ pc # "failed"
        /\ AfterParse =>
              /\ Len(commits) = Len(lines) - 1
              /\ [k \in 1..Len(commits) |-> commits[k].sha] = WellFormedShas

\* four header lines, the second with four fields, gave three commits
C13_Witness ==
    /\ pc = "done"
    /\ lines = <<LineH1, LineH4, LineH2, LineH1>>
    /\ Len(commits) = 3

\* the path field of a file-change line
PathOfLine(raw) == Split(Trim(raw), "\t")[3]
\* the accepted file-change lines of the stream: those with a commit open, i.e. placed
\* after the first header
AcceptedLines ==
    IF HeaderPositions = <<>> THEN {}
    ELSE {n \in (HeaderPositions[1] + 1)..Len(lines) :
            ~IsCommitLine(Trim(lines[n])) /\ IsAcceptedFileLine(lines[n])}

\* C14: after parsing, for every path of the file map totalChanges is the number of
\* accepted file-change lines for that path across all commits of the run, and every
\* path with an accepted line has exactly one record.
C14_TotalChangesCountsLines ==
    AfterParse =>
        LET accepted == AcceptedLines
            pathAt == [n \in accepted |-> PathOfLine(lines[n])]
        IN  /\ \A k \in 1..Len(fileMap) :
                  fileMap[k].totalChanges =
                      Cardinality({n \in accepted : pathAt[n] = fileMap[k].path})
            /\ \A j \in 1..Len(fileMap), k \in 1..Len(fileMap) :
                  fileMap[j].path = fileMap[k].path => j = k
            /\ \A n \in accepted : \E k \in 1..Len(fileMap) : fileMap[k].path = pathAt[n]

\* a file touched in three commits has totalChanges = 3
C14_Witness ==
    /\ pc = "done"
    /\ lines = <<LineH1, LineFA1, LineH2, LineFA2, LineH1, LineFA1>>
    /\ Len(fileMap) = 1
    /\ fileMap[1].totalChanges = 3

\* the hashes of the well-formed headers among the first n lines, in stream order
ShasUpTo(n) ==
    LET at == SelectSeq([m \in 1..n |-> m], LAMBDA m : WellFormedHeader(lines[m]))
    IN  [k \in 1..Len(at) |-> FirstField(lines[at[k]])]
ShasOf(cs) == [k \in 1..Len(cs) |-> cs[k].sha]

\* C15: every commit opened by a well-formed header is appended to the result list
\* exactly once, on the next header or at the end of the stream, and the result list
\* holds the commits in the order of their headers: while the lines are read, the
\* result list followed by the open commit is the headers read so far, and after the
\* last line the result list is the headers of the stream.
C15_CommitsInHeaderOrder ==
    /\ pc = "parse" => ShasOf(commits \o currentCommit) = ShasUpTo(i)
    /\ AfterParse => ShasOf(commits) = ShasUpTo(Len(lines))

\* two commits on one file were emitted in the order of their headers
C15_Witness ==
    /\ pc = "done"
    /\ lines = <<LineH1, LineFA1, LineH2, LineFA2>>
    /\ ShasOf(commits) = << <<"s","1">>, <<"s","2">> >>

AllSettled(tasks) == \A k \in 1..Len(tasks) : tasks[k] = "settled"
\* the record of a file whose own stat, read and author query all succeed carries the
\* values computed from them
OwnResultsKept(k) ==
    LET full == PathJoin(sanitizedRepoPath, fileMap[k].path)
        st == StatWorld(full)
        rd == ReadWorld(full)
        au == AuthorWorld(fileMap[k].path)
    IN  /\ (StartsWith(PathResolve(full), sanitizedRepoPath) /\ st.ok /\ st.size <= 1024 * 1024
              /\ rd.ok)
           => /\ fileMap[k].currentSize = st.size
              /\ fileMap[k].maxComplexity = <<calculateComplexity(rd.val, fileMap[k].language)>>
        /\ (sanitizeFilePath(fileMap[k].path).ok /\ au.ok)
           => fileMap[k].primaryAuthors = <<ParseAuthors(au.val)>>
\* some task of the run failed: a stat, a read or an author query
SomeTaskFailed ==
    \E k \in 1..Len(fileMap) :
        LET full == PathJoin(sanitizedRepoPath, fileMap[k].path) IN
        \/ ~StatWorld(full).ok
        \/ ~ReadWorld(full).ok
        \/ ~AuthorWorld(fileMap[k].path).ok

\* C16: in both enrichment passes the failure of one file's task never prevents
\* another file's task from running to completion and never fails the run: the run
\* fails only before the enrichment, and the run that returns has settled the task of
\* every file in both passes, kept the results of
\* the tasks that succeeded, and returns the full commit list and one record per
\* parsed path.
C16_TaskFailureIsolated ==
    /\ pc = "failed" => (fileMap = <<>> /\ sizeTask = <<>> /\ authorTask = <<>>)
    /\ pc = "done" =>
          /\ outcome = "returned"
          /\ Len(sizeTask) = Len(fileMap) /\ AllSettled(sizeTask)
          /\ Len(authorTask) = Len(fileMap) /\ AllSettled(authorTask)
          /\ \A k \in 1..Len(fileMap) : OwnResultsKept(k)
          /\ ShasOf(commits) = ShasUpTo(Len(lines))
          /\ {fileMap[k].path : k \in 1..Len(fileMap)}
                = {PathOfLine(lines[n]) : n \in AcceptedLines}

\* a run in which a stat and an author query failed returned, with the complexity and
\* the authors of a.ts computed
C16_Witness ==
    /\ pc = "done"
    /\ SomeTaskFailed
    /\ \E j \in 1..Len(fileMap) : fileMap[j].isDeleted
    /\ \E j \in 1..Len(fileMap) : fileMap[j].path = <<"b","i","g">> /\ fileMap[j].primaryAuthors = << <<>> >>
    /\ \E k \in 1..Len(fileMap) :
          /\ fileMap[k].path = <<"a",".","t","s">>
          /\ fileMap[k].primaryAuthors = << << <<"A","l">>, <<"B","o">> >> >>
          /\ fileMap[k].maxComplexity # <<>>

StatCall(k) == [op |-> "stat", path |-> PathJoin(sanitizedRepoPath, fileMap[k].path)]
ReadCall(k) == [op |-> "readFile", path |-> PathJoin(sanitizedRepoPath, fileMap[k].path)]

\* C17: a file whose on-disk size exceeds 1 MiB (1024*1024 bytes) never has its content
\* read, and its task records complexity 1 and currentSize = the stat'ed size; a file
\* of exactly 1 MiB or less is read.
C17_OversizedNeverRead ==
    \A k \in 1..Len(sizeTask) :
        LET st == StatWorld(StatCall(k).path) IN
        (StatCall(k) \in fsCalls /\ st.ok) =>
            /\ st.size > 1048576 =>
                  /\ ReadCall(k) \notin fsCalls
                  /\ sizeTask[k] = "settled" =>
                        /\ fileMap[k].currentSize = st.size
                        /\ fileMap[k].maxComplexity = <<1>>
                        /\ fileMap[k].avgComplexity = <<1>>
            /\ (st.size <= 1048576 /\ sizeTask[k] = "settled") => ReadCall(k) \in fsCalls

\* a file of 1 MiB + 1 byte was settled unread and a file of exactly 1 MiB was read
C17_Witness ==
    /\ pc = "done"
    /\ \E k \in 1..Len(fileMap) :
          /\ fileMap[k].currentSize = 1048577
          /\ fileMap[k].maxComplexity = <<1>>
          /\ ReadCall(k) \notin fsCalls
    /\ \E k \in 1..Len(fileMap) :
          /\ fileMap[k].currentSize = 1048576
          /\ ReadCall(k) \in fsCalls

\* C18: every FileRecord of the returned set has a complexity value and a primaryAuthors
\* list assigned, whichever branch its tasks took.
C18_ReturnedRecordsComplete ==
    pc = "done" =>
        \A k \in 1..Len(fileMap) :
            /\ fileMap[k].maxComplexity # <<>>
            /\ fileMap[k].avgComplexity # <<>>
            /\ fileMap[k].primaryAuthors # <<>>

\* C19: a file is marked isDeleted with currentSize 0 and complexity 0 exactly when its
\* stat fails in the size/complexity pass; a file whose stat succeeds is never marked
\* deleted, even when reading its content fails (it then gets complexity 1).
C19_DeletedIffStatFails ==
    \A k \in 1..Len(fileMap) :
        LET statFailed == /\ k <= Len(sizeTask)
                          /\ StatCall(k) \in fsCalls
                          /\ ~StatWorld(StatCall(k).path).ok
            settled == k <= Len(sizeTask) /\ sizeTask[k] = "settled"
        IN  /\ fileMap[k].isDeleted => (statFailed /\ settled)
            /\ (statFailed /\ settled) =>
                  /\ fileMap[k].isDeleted
                  /\ fileMap[k].currentSize = 0
                  /\ fileMap[k].maxComplexity = <<0>>
                  /\ fileMap[k].avgComplexity = <<0>>
            /\ (settled /\ ReadCall(k) \in fsCalls /\ ~ReadWorld(ReadCall(k).path).ok) =>
                  /\ ~fileMap[k].isDeleted
                  /\ fileMap[k].maxComplexity = <<1>>
                  /\ fileMap[k].avgComplexity = <<1>>

\* one file's stat failed and it was marked deleted; another's read failed and it was
\* not
C19_Witness ==
    /\ pc = "done"
    /\ lines = <<LineH1, LineFB, LineFSp>>
    /\ Len(fileMap) = 2
    /\ ~StatWorld(StatCall(1).path).ok
    /\ fileMap[1].isDeleted /\ fileMap[1].maxComplexity = <<0>>
    /\ ReadCall(2) \in fsCalls /\ ~ReadWorld(ReadCall(2).path).ok
    /\ ~fileMap[2].isDeleted /\ fileMap[2].maxComplexity = <<1>>

LogReadErrors == {"timeout", "maxBuffer exceeded"}

\* C20: a timeout or other failure of one file's author-history subprocess sets that
\* file's primaryAuthors to [] and does not fail the run, whereas a timeout or a buffer
\* overflow of the whole-history log read fails the run and no record set is returned.
C20_AuthorFailureLocalLogFailureFatal ==
    /\ outcome \in LogReadErrors =>
          /\ pc = "failed"
          /\ logCmd # <<>>
          /\ commits = <<>> /\ fileMap = <<>> /\ authorTask = <<>>
    /\ \A k \in 1..Len(authorTask) :
          (authorTask[k] = "settled" /\ ~AuthorWorld(fileMap[k].path).ok) =>
              /\ fileMap[k].primaryAuthors = << <<>> >>
              /\ pc \in {"awaitAuthor", "done"}
              /\ outcome \in {"running", "returned"}
    /\ pc = "done" => outcome = "returned"

\* the author query of one file timed out, its list is empty, another file has its
\* authors, and the run returned
C20_Witness ==
    /\ pc = "done" /\ outcome = "returned"
    /\ \E k \in 1..Len(fileMap) :
          /\ ~AuthorWorld(fileMap[k].path).ok
          /\ fileMap[k].primaryAuthors = << <<>> >>
    /\ \E k \in 1..Len(fileMap) :
          /\ AuthorWorld(fileMap[k].path).ok
          /\ fileMap[k].primaryAuthors = << << <<"A","l">>, <<"B","o">> >> >>

CountTokens(toks, S) == Cardinality({k \in 1..Len(toks) : toks[k] \in S})
\* the unclamped sum of the claim, counted on the tokens the content was built from
UnclampedScore(toks, language) ==
    LET open == CountTokens(toks, {OpenBrace})
        close == CountTokens(toks, {CloseBrace})
    IN  1 + CountTokens(toks, KeywordTokens)
          + 2 * (IF open > close THEN open - close ELSE 0)
          + (IF language \in {"javascript", "typescript"} THEN CountTokens(toks, AsyncTokens)
             ELSE 0)

LessOrEqual(a, b) == ~a.nan /\ ~b.nan /\ a.val <= b.val

\* C22: at every point of parsing, every file record has firstSeen <= lastModified and
\* totalChanges >= 1, whatever the order of the timestamps.
C22_FirstSeenNotAfterLastModified ==
    pc = "parse" =>
        \A k \in 1..Len(fileMap) :
            /\ LessOrEqual(fileMap[k].firstSeen, fileMap[k].lastModified)
            /\ fileMap[k].totalChanges >= 1

\* the class of a fatal error, by its cause
ErrorClass(cause) ==
    CASE cause \in {"field missing", "ENOENT: no such file or directory"} -> "missing path"
      [] cause \in {"Repository path is not in an allowed directory",
                    "Invalid characters in repository path",
                    "Repository too large"} -> "validation failure"
      [] cause \in {"timeout", "maxBuffer exceeded"} -> "processing failure"
ErrorCauses ==
    {"field missing", "ENOENT: no such file or directory",
     "Repository path is not in an allowed directory", "Invalid characters in repository path",
     "Repository too large", "timeout", "maxBuffer exceeded"}
\* the response the endpoint gives for a cause
ResponseTo(cause) ==
    IF cause = "field missing" THEN MissingFieldsResponse
    ELSE IF cause \in {"Repository too large", "timeout", "maxBuffer exceeded"}
         THEN ParseFailedResponse(cause)
    ELSE NotFoundResponse(cause)
\* the cause of the failure the endpoint has responded to
CauseOfResponse ==
    IF apiResp[1].status = 400 THEN "field missing"
    ELSE IF apiResp[1].status = 404 THEN apiResp[1].error
    ELSE outcome
\* how a failure is reported: the status and the error label of the payload
ReportedAs(resp) == <<resp.status, resp.error>>

\* C23: the failure response of the parse endpoint tells three classes of fatal error
\* apart: a missing repository path, a validation failure (path rejected by the
\* sanitizer, repository over the size ceiling) and a processing failure (log timeout,
\* parse failure) are reported with a status and error that no cause of another class
\* is reported with.
C23_FailureClassesDistinct ==
    (apiPc = "responded" /\ ~apiResp[1].success) =>
        /\ apiResp[1] = ResponseTo(CauseOfResponse)
        /\ \A other \in ErrorCauses :
             ErrorClass(other) # ErrorClass(CauseOfResponse)
                 => ReportedAs(ResponseTo(other)) # ReportedAs(apiResp[1])

\* the filters a GET request supplies (an empty value counts as absent, lines 122-146)
SuppliedFilters == {n \in Range(FilterNames) : Truthy(gwReq.filters[n])}
FilterOptions == {FilterOption(n) : n \in Range(FilterNames)}
\* the arguments a command line gives to an option
ArgsOf(line, opt) == {line[k].arg : k \in {j \in 1..Len(line) : line[j].opt = opt}}

\* C24: in the GET handler every supplied since/until/author/grep/file value passes
\* through sanitizeGitParameter before it is appended to the command, and when a
\* supplied value fails sanitization no subprocess is executed for the request.
C24_FiltersSanitizedOrNoSubprocess ==
    (gwPc # "idle" /\ gwReq.method = "GET") =>
        LET refused == {n \in SuppliedFilters : ~sanitizeGitParameter(gwReq.filters[n][1]).ok} IN
        /\ refused # {} => (gwCmd = Null /\ gwPc = "responded" /\ gwResp[1].status >= 400)
        /\ gwCmd # Null =>
             /\ \A n \in SuppliedFilters :
                  ArgsOf(gwCmd[1].line, FilterOption(n))
                      = {Some(sanitizeGitParameter(gwReq.filters[n][1]).val)}
             /\ \A n \in Range(FilterNames) \ SuppliedFilters :
                  ArgsOf(gwCmd[1].line, FilterOption(n)) = {}
             /\ \A k \in 1..Len(gwCmd[1].line) :
                  gwCmd[1].line[k].opt \in FilterOptions
                      => ~HasShellMeta(gwCmd[1].line[k].arg[1])

\* a request on an existing repository whose since value passes and whose grep value is
\* refused: answered 500, nothing executed
C24_Witness ==
    /\ gwPc = "responded" /\ gwReq.method = "GET"
    /\ gwReq.path = Some(<<"/","t","m","p","/","r">>)
    /\ gwReq.filters["since"] = Some(<<"a">>)
    /\ gwReq.filters["grep"] = Some(<<"a",";">>)
    /\ gwCmd = Null
    /\ gwResp[1].status = 500

\* C25: whenever the history log command is invoked, the commit count it is bounded by
\* is min(estimatedCommits, 1000) with estimatedCommits = floor(sizeBytes / 1024): it
\* never exceeds 1000, and it is 0 when the metadata directory is unreadable or smaller
\* than 1 KiB.
C25_CommitBound ==
    logCmd # <<>> =>
        LET estimatedCommits == sizeBytes \div 1024 IN
        /\ logCmd[1].maxCount = (IF estimatedCommits <= 1000 THEN estimatedCommits ELSE 1000)
        /\ logCmd[1].maxCount <= 1000
        /\ sizeBytes < 1024 => logCmd[1].maxCount = 0

\* the log invoked on a metadata directory one byte below 1001 KiB: bounded by 1000
C25_Witness ==
    /\ logCmd # <<>>
    /\ sizeBytes = 1001 * 1024 - 1
    /\ logCmd[1].maxCount = 1000

\* the log invoked on a metadata directory of 1023 bytes: bounded by 0
C25_WitnessZero ==
    /\ logCmd # <<>>
    /\ sizeBytes = 1023
    /\ logCmd[1].maxCount = 0

\* the state of task k in a task list, "unstarted" before the list holds it
TaskState(tasks, k) == IF k <= Len(tasks) THEN tasks[k] ELSE "unstarted"
\* the fields the parse loop fills and the enrichment leaves alone
ParsedFields(rec) ==
    <<rec.path, rec.extension, rec.firstSeen, rec.lastModified, rec.totalChanges, rec.language>>
SizeFields(rec) == <<rec.currentSize, rec.isDeleted, rec.maxComplexity, rec.avgComplexity>>

\* a step taken during the enrichment leaves the commits, the keys and the parsed fields
\* alone, and changes of a record only what a task of that record that moved writes
EnrichmentFrame ==
    pc \in {"mapSize", "awaitSize", "awaitAuthor"} =>
        /\ commits' = commits
        /\ Len(fileMap') = Len(fileMap)
        /\ \A j \in 1..Len(fileMap) :
             /\ ParsedFields(fileMap'[j]) = ParsedFields(fileMap[j])
             /\ SizeFields(fileMap'[j]) # SizeFields(fileMap[j])
                    => TaskState(sizeTask', j) # TaskState(sizeTask, j)
             /\ fileMap'[j].primaryAuthors # fileMap[j].primaryAuthors
                    => TaskState(authorTask', j) # TaskState(authorTask, j)

\* C26: each in-flight enrichment task writes only the record of its own file: a step of
\* the enrichment changes no record but those of the tasks that moved in it, changes of
\* a record only the fields of the pass the task belongs to, adds or removes no key of
\* the file map, and changes no commit record.
C26_TaskWritesOwnRecordOnly == [][EnrichmentFrame]_vars

\* two size tasks in flight, the first settled with its record written, the second's
\* record still as the parse loop left it
C26_Witness ==
    /\ pc = "awaitSize"
    /\ Len(fileMap) >= 2
    /\ sizeTask[1] = "settled" /\ fileMap[1].maxComplexity # Unset
    /\ sizeTask[2] \in {"stat", "read"} /\ fileMap[2].maxComplexity = Unset
    /\ Len(commits) >= 1

\* a header line of the stream, well-formed or not: a line the parser takes as a header,
\* or a line with a field separator that is no file-change line
IsHeaderLine(raw) ==
    \/ IsCommitLine(Trim(raw))
    \/ (Includes(raw, <<"|">>) /\ ~MatchesNumstat(Trim(raw)))
\* the lines between the k-th well-formed header and the next header line of any kind
OwnBlock(k) ==
    LET from == HeaderPositions[k]
        later == {n \in (from + 1)..Len(lines) : IsHeaderLine(lines[n])}
        to == IF later = {} THEN Len(lines)
              ELSE (CHOOSE n \in later : \A m \in later : n <= m) - 1
    IN  (from + 1)..to
Occurrences(seq, x) == Cardinality({k \in 1..Len(seq) : seq[k] = x})

\* C27: every path in a commit's filesChanged comes from a file-change line between
\* that commit's own header and the next header line of the stream, well-formed or not:
\* file-change lines after a header skipped as malformed are not attributed to the
\* preceding valid commit, and file-change lines before the first header are
\* attributed to no commit.
C27_FilesFromOwnBlock ==
    AfterParse =>
        /\ Len(commits) = Len(HeaderPositions)
        /\ \A k \in 1..Len(commits) :
             LET own == {n \in OwnBlock(k) : IsAcceptedFileLine(lines[n])} IN
             \A p \in Range(commits[k].filesChanged) :
                 Occurrences(commits[k].filesChanged, p)
                     <= Cardinality({n \in own : PathOfLine(lines[n]) = p})

RECURSIVE TotalChanges(_)
TotalChanges(map) == IF map = <<>> THEN 0 ELSE Head(map).totalChanges + TotalChanges(Tail(map))
RECURSIVE TotalFilesChanged(_)
TotalFilesChanged(cs) ==
    IF cs = <<>> THEN 0 ELSE Len(Head(cs).filesChanged) + TotalFilesChanged(Tail(cs))
\* the file map and a list of commits agree
MapAgreesWith(cs) ==
    /\ {fileMap[k].path : k \in 1..Len(fileMap)}
           = UNION {Range(cs[k].filesChanged) : k \in 1..Len(cs)}
    /\ TotalChanges(fileMap) = TotalFilesChanged(cs)

\* C28: after parsing any stream the file map and the commit list agree: a path is a key
\* of the file map if and only if it occurs in some commit's filesChanged, and the sum
\* of totalChanges over all file records equals the number of filesChanged entries over
\* all commits. (While the lines are read the same holds with the open commit counted.)
C28_MapAgreesWithCommits ==
    /\ AfterParse => MapAgreesWith(commits)
    /\ pc = "parse" => MapAgreesWith(commits \o currentCommit)

\* three commits on one file and no other: one key, three entries, totalChanges 3
C28_Witness ==
    /\ AfterParse
    /\ Len(commits) = 3
    /\ Len(fileMap) = 1
    /\ TotalFilesChanged(commits) = 3
    /\ TotalChanges(fileMap) = 3

\* one commit on two files: two keys, two entries
C28_WitnessTwoKeys ==
    /\ AfterParse
    /\ Len(commits) = 1
    /\ Len(fileMap) = 2
    /\ TotalFilesChanged(commits) = 2

\* the timestamps of the commits of the result that touched a path
DatesTouching(path) ==
    {commits[c].date : c \in {j \in 1..Len(commits) : path \in Range(commits[j].filesChanged)}}

\* C29: after parsing, for every file record firstSeen is the minimum and lastModified
\* the maximum of the timestamps of the commits that touched the file in the run,
\* whatever the order of the commits in the stream.
C29_FirstSeenIsMinLastModifiedIsMax ==
    AfterParse =>
        \A k \in 1..Len(fileMap) :
            LET dates == DatesTouching(fileMap[k].path) IN
            /\ fileMap[k].firstSeen \in dates
            /\ \A d \in dates : LessOrEqual(fileMap[k].firstSeen, d)
            /\ fileMap[k].lastModified \in dates
            /\ \A d \in dates : LessOrEqual(d, fileMap[k].lastModified)

\* no size task, no author task and no file-system or author call has been started
NothingStarted == sizeTask = <<>> /\ authorTask = <<>> /\ fsCalls = {} /\ authorCmds = {}
\* a record as the parse loop leaves it
Unenriched(rec) ==
    /\ rec.currentSize = 0 /\ rec.isDeleted = FALSE
    /\ rec.maxComplexity = Unset /\ rec.avgComplexity = Unset /\ rec.primaryAuthors = Unset

\* C30: the stages of a run are strictly sequenced: no size/complexity task starts before
\* the parse loop has consumed the whole stream, no author-extraction subprocess starts
\* before every size/complexity task has settled, and the key set of the file map is
\* fixed before any enrichment write: each pass holds one task per key.
C30_StagesSequenced ==
    /\ pc \in {"start", "size", "log", "logRunning", "parse", "mapSize", "failed"} =>
          (NothingStarted /\ \A k \in 1..Len(fileMap) : Unenriched(fileMap[k]))
    /\ pc \in {"awaitSize", "awaitAuthor", "done"} =>
          /\ i >= Len(lines)
          /\ currentCommit # <<>> => commits # <<>> /\ commits[Len(commits)] = currentCommit[1]
          /\ Len(sizeTask) = Len(fileMap)
    /\ pc = "awaitSize" => (authorTask = <<>> /\ authorCmds = {})
    /\ pc \in {"awaitAuthor", "done"} =>
          /\ AllSettled(sizeTask)
          /\ Len(authorTask) = Len(fileMap)

\* the author pass in flight on two files, every size task settled
C30_Witness ==
    /\ pc = "awaitAuthor"
    /\ Len(fileMap) >= 2
    /\ AllSettled(sizeTask)
    /\ \E k \in 1..Len(authorTask) : authorTask[k] = "exec"
    /\ authorCmds # {}
    /\ i = Len(lines)


====
